---- MODULE Spec2Model ----
(***************************************************************************)
(* Declarative dashboard renderer of gennie-x                              *)
(* (src/web/static/js/dashboard-renderer.js, src/web/static/charts).       *)
(*                                                                         *)
(* Specifications:                                                         *)
(*   Spec    - the render passes of one dashboard container driven by the  *)
(*             browser event loop: fetches, deferred chart                 *)
(*             initialisation, the chart instance registry, table sort     *)
(*             state and sort-toggle clicks;                               *)
(*   SpecTL  - createTimelineChart applied to bounded row sets;            *)
(*   SpecPM  - the percentage mode of createTimelineChart on one bucket;   *)
(*   SpecHM  - the responsive heatmap: state, painting, hit testing;       *)
(*   SpecSL, SpecSLFair - ensureScriptLoaded;                              *)
(*   SpecCar - the quotes carousel;                                        *)
(*   SpecRZ  - the debounced resize handler of the dashboard;              *)
(*   SpecWF  - the font size of a word cloud word;                         *)
(*   SpecWC  - the word cloud widget: draws, retries, resize listeners;    *)
(*   SpecTS  - sorting and limiting the rows of a columnar table.          *)
(***************************************************************************)
EXTENDS Integers, Sequences, FiniteSets, TLC

VARIABLES
    passes,           \* one record per call of renderDeclarativeDashboard
    nPasses,          \* number of calls made so far
    container,        \* what container.innerHTML currently holds
    listeners,        \* click listeners on the mounted .table-sort-toggle buttons
    dashboardCharts,  \* dashboard-renderer.js:38, key -> Chart instance
    live,             \* Chart instances constructed and not yet destroyed
    destroyed,        \* keys under which a Chart instance has been destroyed
    tableSortState,   \* table-renderer.js:15, tableId -> {key, direction}
    heatmapRegistry,  \* heatmap-renderer.js:9, heatmap id -> state
    chartLib,         \* load state of the Chart.js script / window.Chart
    returns,          \* the calls that have returned: how many, the last, its value
    tl,               \* createTimelineChart: input rows and result
    pct,              \* percentage mode of createTimelineChart: a bucket
    hm,               \* renderHeatmap / renderResponsiveHeatmap: input and result
    sl,               \* script-loader: document, pendingLoads, promises, clock
    car,              \* Carousel: current index, slides and dots
    rz,               \* resize listener of the dashboard page: debounce timer, clock
    wc,               \* word cloud widget: selector, toggle, deferred draws
    wf,               \* weightFactor of a word cloud draw: word list and font sizes
    ts                \* sorting and truncating the rows of a columnar table

dvars == <<passes, nPasses, container, listeners, dashboardCharts, live, destroyed,
           tableSortState, heatmapRegistry, chartLib, returns>>
vars == <<passes, nPasses, container, listeners, dashboardCharts, live, destroyed,
          tableSortState, heatmapRegistry, chartLib, returns,
          tl, pct, hm, sl, car, rz, wc, wf, ts>>
\* the variables of the specifications that apply one function to its inputs
fvars == <<tl, pct, hm, sl, car>>
\* the variables of the specifications of one widget's event handlers
xvars == <<rz, wc, wf>>

---------------------------------------------------------------------------
(* Bounds *)

MaxRenders == 2     \* calls of renderDeclarativeDashboard made by the page
MaxPasses == 4      \* calls in total, those made by click handlers included

Passes == 1..MaxPasses

(* The workspace page renders every dashboard into the same container      *)
(* (pages/workspace/page.js:742); ids are character sequences so that      *)
(* String.prototype.startsWith can be computed.                            *)
Dashboards == {<<"a">>, <<"a", "b">>}

---------------------------------------------------------------------------
(* Values *)

Num(n) == [t |-> "number", v |-> n]
NullCell == [t |-> "null", v |-> 0]
\* a string value, as the sequence of its characters
Str(s) == [t |-> "string", v |-> s]

\* row[field]; a field the row does not have reads as undefined
Field(row, f) == IF f \in DOMAIN row THEN row[f] ELSE NullCell

StartsWith(s, prefix) ==
    /\ Len(prefix) <= Len(s)
    /\ SubSeq(s, 1, Len(prefix)) = prefix

\* `${dashboardId}-${chartConfig.id}`
ChartKey(d, id) == d \o <<"-">> \o id
\* `chart-${dashboardId}-${chartConfig.id}`
CanvasId(d, id) == <<"chart-">> \o d \o <<"-">> \o id
\* `heatmap-${dashboardId}-${chartConfig.id}`
HeatmapId(d, id) == <<"heatmap-">> \o d \o <<"-">> \o id
\* `table-${dashboardId}-${chartConfig.id}`
TableId(d, id) == <<"table-">> \o d \o <<"-">> \o id

---------------------------------------------------------------------------
(* Dashboard payloads (GET .../dashboards/{dashboardId})                   *)

NoOptions == [sort_key |-> "", sort_direction |-> "", sort_toggle |-> FALSE,
              max_items |-> 0]

Chart(id, type) == [id |-> id, chart_type |-> type, columns |-> <<>>,
                    options |-> NoOptions]

Table(id, cols, key, dir, maxItems) ==
    [id |-> id, chart_type |-> "table", columns |-> cols,
     options |-> [sort_key |-> key, sort_direction |-> dir,
                  sort_toggle |-> TRUE, max_items |-> maxItems]]

BarRows == <<[value |-> Num(1), count |-> Num(2)]>>

TableRows == <<[count |-> Num(1), turns |-> Num(5)],
               [count |-> Num(3), turns |-> NullCell],
               [count |-> Num(2), turns |-> Num(4)]>>

HeatRows == <<[x |-> Num(1), y |-> Num(1), value |-> Num(2)]>>

cx == <<"x">>
cy == <<"y">>
ct == <<"t">>
ch == <<"h">>
cq == <<"q">>

StdCharts == <<Chart(cx, "bar"), Chart(cy, "line")>>

\* the payloads the backend may answer with, each for the dashboards in
\* its field served; a chart id outside the DOMAIN of data.charts has no
\* data entry
Payloads == <<
    \* every chart has data; the table sorts by its first numeric column
    [served |-> {<<"a">>}, is_available |-> TRUE,
     charts |-> StdCharts \o <<Table(ct, <<"count", "turns">>, "", "", 0),
                               Chart(ch, "heatmap")>>,
     data |-> (cx :> BarRows) @@ (cy :> BarRows) @@ (ct :> TableRows)
              @@ (ch :> HeatRows)],
    \* chart y has no data entry; other sort options for the same table
    [served |-> {<<"a">>}, is_available |-> TRUE,
     charts |-> StdCharts \o <<Table(ct, <<"count", "turns">>, "turns", "asc", 2),
                               Chart(ch, "heatmap")>>,
     data |-> (cx :> BarRows) @@ (ct :> TableRows)],
    \* chart x has an empty array; the table has no numeric column
    [served |-> {<<"a", "b">>}, is_available |-> TRUE,
     charts |-> StdCharts \o <<Table(ct, <<"name">>, "", "", 0),
                               Chart(cq, "quotes")>>,
     data |-> (cx :> <<>>) @@ (cy :> BarRows) @@ (ct :> TableRows)
              @@ (cq :> BarRows)],
    \* the dataset is not available
    [served |-> {<<"a">>}, is_available |-> FALSE, charts |-> <<>>,
     data |-> <<>>]
>>

PayloadIds == 1..Len(Payloads)

---------------------------------------------------------------------------
(* TableEngine (src/web/static/charts/table-renderer.js)                   *)

DefaultMaxItems == 15

\* isNumericField, the allow-list of renderDataTable
NumericFields == {"count", "sessions", "turns", "times_changed",
                  "total_lines_added", "total_lines_removed", "total_changes",
                  "total_code_loc", "session_count", "turn_count",
                  "loc_per_turn", "total_loc_added", "code_turns",
                  "total_count"}

\* columns.find(col => isNumericField(col.field))?.field || null
FirstNumericField(cols) ==
    LET hits == {i \in 1..Len(cols) : cols[i] \in NumericFields}
    IN  IF hits = {} THEN ""
        ELSE cols[CHOOSE i \in hits : \A j \in hits : i <= j]

\* a variant that stores the options on every access
getSortStateAlways(state, tableId, options) ==
    (tableId :> [key |-> options.sort_key,
                 direction |-> IF options.sort_direction = "" THEN "desc"
                               ELSE options.sort_direction])
    @@ state

\* getSortState: the map after the call (the entry is created on first
\* access and returned untouched afterwards)
getSortState(state, tableId, options) ==
    IF tableId \in DOMAIN state THEN state
    ELSE (tableId :> [key |-> options.sort_key,
                      direction |-> IF options.sort_direction = "" THEN "desc"
                                    ELSE options.sort_direction])
         @@ state

\* the characters of the strings of a table, in the order of localeCompare
Collation == <<"-", "0", "1", "2", "3", "4", "5", "6", "7", "8", "9",
               "a", "b", "c">>

\* String.prototype.toLowerCase on one character
LowerChar(c) ==
    IF c = "A" THEN "a" ELSE IF c = "B" THEN "b" ELSE IF c = "C" THEN "c" ELSE c

toLowerCase(s) == [i \in 1..Len(s) |-> LowerChar(s[i])]

CharRank(c) == CHOOSE i \in 1..Len(Collation) : Collation[i] = c

\* strA.localeCompare(strB) on lower-case strings: -1, 0 or 1
localeCompare(strA, strB) ==
    LET n == IF Len(strA) < Len(strB) THEN Len(strA) ELSE Len(strB)
        diff == {i \in 1..n : strA[i] # strB[i]}
    IN  IF diff = {}
        THEN IF Len(strA) < Len(strB) THEN -1
             ELSE IF Len(strA) > Len(strB) THEN 1 ELSE 0
        ELSE LET i == CHOOSE k \in diff : \A l \in diff : k <= l
             IN  IF CharRank(strA[i]) < CharRank(strB[i]) THEN -1 ELSE 1

\* String(n) of an integer
RECURSIVE NatString(_)
NatString(n) ==
    IF n < 10 THEN <<Collation[n + 2]>>
    ELSE NatString(n \div 10) \o <<Collation[(n % 10) + 2]>>

\* String(value) of a number or a string
String(val) ==
    IF val.t = "string" THEN val.v
    ELSE IF val.v < 0 THEN <<"-">> \o NatString(-val.v)
    ELSE NatString(val.v)

\* the comparator of sortData: negative, zero or positive
compareRows(a, b, sortKey, direction) ==
    LET aVal == Field(a, sortKey)
        bVal == Field(b, sortKey)
    IN  IF aVal.t = "null" /\ bVal.t = "null" THEN 0
        ELSE IF aVal.t = "null" THEN 1
        ELSE IF bVal.t = "null" THEN -1
        ELSE IF aVal.t = "number" /\ bVal.t = "number"
        THEN IF direction = "desc" THEN bVal.v - aVal.v ELSE aVal.v - bVal.v
        ELSE LET cmp == localeCompare(toLowerCase(String(aVal)),
                                      toLowerCase(String(bVal)))
             IN  IF direction = "desc" THEN -cmp ELSE cmp

\* Array.prototype.sort is stable: x goes behind every element that does
\* not compare greater than it
InsertRow(sorted, x, sortKey, direction) ==
    LET after == {j \in 1..Len(sorted) :
                     compareRows(sorted[j], x, sortKey, direction) > 0}
        pos == IF after = {} THEN Len(sorted) + 1
               ELSE CHOOSE j \in after : \A k \in after : j <= k
    IN  SubSeq(sorted, 1, pos - 1) \o <<x>> \o SubSeq(sorted, pos, Len(sorted))

RECURSIVE SortRows(_, _, _, _)
SortRows(data, n, sortKey, direction) ==
    IF n = 0 THEN <<>>
    ELSE InsertRow(SortRows(data, n - 1, sortKey, direction), data[n],
                   sortKey, direction)

\* a variant that always sorts descending
sortDataIgnoringDirection(data, sortKey, direction) ==
    IF sortKey = "" THEN data
    ELSE SortRows(data, Len(data), sortKey, "desc")

sortData(data, sortKey, direction) ==
    IF sortKey = "" THEN data
    ELSE SortRows(data, Len(data), sortKey, direction)

\* toggleTableSort: the map after the call
toggleTableSort(state, tableId) ==
    IF tableId \notin DOMAIN state THEN state
    ELSE [state EXCEPT ![tableId].direction =
              IF state[tableId].direction = "desc" THEN "asc" ELSE "desc"]

\* renderDataTable, columnar mode: the sort state after the call and the
\* rows of the rendered table
TableDefaultSortKey(c) ==
    IF c.options.sort_key # "" THEN c.options.sort_key
    ELSE FirstNumericField(c.columns)

TableSortStateAfter(c, d, state) ==
    getSortState(state, TableId(d, c.id),
                 [sort_key |-> TableDefaultSortKey(c),
                  sort_direction |-> IF c.options.sort_direction = "" THEN "desc"
                                     ELSE c.options.sort_direction])

\* chartConfig.max_items || options.max_items || 15
TableMaxItems(c) ==
    IF "max_items" \in DOMAIN c /\ c.max_items # 0 THEN c.max_items
    ELSE IF c.options.max_items # 0 THEN c.options.max_items
    ELSE DefaultMaxItems

\* a variant that limits the data before sorting it
TableItemsLimitedFirst(c, rows, d, state) ==
    LET maxItems == TableMaxItems(c)
        st == TableSortStateAfter(c, d, state)[TableId(d, c.id)]
    IN  sortData(SubSeq(rows, 1, IF Len(rows) < maxItems THEN Len(rows)
                                 ELSE maxItems),
                 st.key, st.direction)

TableItems(c, rows, d, state) ==
    LET maxItems == TableMaxItems(c)
        st == TableSortStateAfter(c, d, state)[TableId(d, c.id)]
        processedData == sortData(rows, st.key, st.direction)
    IN  SubSeq(processedData, 1,
               IF Len(processedData) < maxItems THEN Len(processedData)
               ELSE maxItems)

---------------------------------------------------------------------------
(* DashboardOrchestrator: building the chart grid                          *)
(* (src/web/static/js/dashboard-renderer.js)                               *)

EmptyFn == [x \in {} |-> 0]

\* data && (Array.isArray(data) ? data.length > 0 : ...), the filter of
\* renderChartsGrid
HasData(data, id) == id \in DOMAIN data /\ Len(data[id]) > 0

\* a variant that gives up the grid when one chart has no data
ValidChartsIfAllHaveData(charts, data) ==
    IF \A i \in 1..Len(charts) : HasData(data, charts[i].id) THEN charts
    ELSE <<>>

ValidCharts(charts, data) ==
    SelectSeq(charts, LAMBDA c : HasData(data, c.id))

\* The mounted part of a card and the module state it touches while its
\* HTML is built.  acc: [cards, canvases, tables, buttons, heatmaps,
\* sortState, hmReg]
renderChartCard(c, rows, d, by, acc) ==
    IF c.chart_type = "quotes" THEN
        [acc EXCEPT !.cards = @ \cup {c.id}]
    ELSE IF c.chart_type = "table" THEN
        IF Len(c.columns) > 0 THEN
            [acc EXCEPT
                !.cards = @ \cup {c.id},
                !.sortState = TableSortStateAfter(c, d, @),
                !.tables = (TableId(d, c.id) :>
                              TableItems(c, rows, d, acc.sortState)) @@ @,
                !.buttons = IF c.options.sort_toggle
                            THEN @ \cup {TableId(d, c.id)} ELSE @]
        ELSE [acc EXCEPT !.cards = @ \cup {c.id}]
    ELSE IF c.chart_type = "heatmap" THEN
        [acc EXCEPT
            !.cards = @ \cup {c.id},
            !.heatmaps = @ \cup {HeatmapId(d, c.id)},
            !.hmReg = (HeatmapId(d, c.id) :> rows) @@ @]
    ELSE
        [acc EXCEPT
            !.cards = @ \cup {c.id},
            !.canvases = @ \cup {CanvasId(d, c.id)}]

RECURSIVE RenderCards(_, _, _, _, _, _)
RenderCards(valid, i, data, d, by, acc) ==
    IF i > Len(valid) THEN acc
    ELSE RenderCards(valid, i + 1, data, d, by,
                     renderChartCard(valid[i], data[valid[i].id], d, by, acc))

renderChartsGrid(charts, data, d, by, sortState, hmReg) ==
    RenderCards(ValidCharts(charts, data), 1, data, d, by,
                [cards |-> {}, canvases |-> {}, tables |-> EmptyFn,
                 buttons |-> {}, heatmaps |-> {},
                 sortState |-> sortState, hmReg |-> hmReg])

\* container.innerHTML
Dom(kind, by, d) ==
    [kind |-> kind, by |-> by, dash |-> d, cards |-> {}, canvases |-> {},
     tables |-> EmptyFn, buttons |-> {}, heatmaps |-> {}]

ContentDom(by, d, grid) ==
    [kind |-> "content", by |-> by, dash |-> d, cards |-> grid.cards,
     canvases |-> grid.canvases, tables |-> grid.tables,
     buttons |-> grid.buttons, heatmaps |-> grid.heatmaps]

---------------------------------------------------------------------------
(* StandardChartEngine: initializeCharts of chart-renderer.js              *)
(* (src/web/static/charts/heatmap-renderer.js:543-589)                     *)

SkippedTypes == {"quotes", "table", "heatmap", "word_cloud", "none"}

\* a variant without the destroy loop
KeepAll(reg, lv, d) == [reg |-> reg, lv |-> lv]

\* the loop "Destroy any existing charts for this dashboard"
DestroyExisting(reg, lv, d) ==
    LET gone == {k \in DOMAIN reg : StartsWith(k, d)}
    IN  [reg |-> [k \in DOMAIN reg \ gone |-> reg[k]],
         lv |-> lv \ {reg[k] : k \in gone}]

\* chartsConfig.forEach(...): one Chart per configured standard chart whose
\* canvas is in the document and whose data is a non-empty array
RECURSIVE CreateCharts(_, _, _, _, _, _, _)
CreateCharts(charts, i, data, d, by, canvases, st) ==
    IF i > Len(charts) THEN st
    ELSE LET c == charts[i]
             chart == [by |-> by, key |-> ChartKey(d, c.id)]
             skip == \/ c.chart_type \in SkippedTypes
                     \/ CanvasId(d, c.id) \notin canvases
                     \/ ~HasData(data, c.id)
         IN  CreateCharts(charts, i + 1, data, d, by, canvases,
                 IF skip THEN st
                 ELSE [reg |-> (chart.key :> chart) @@ st.reg,
                       lv |-> st.lv \cup {chart}])

initializeCharts(charts, data, d, by, canvases, reg, lv) ==
    CreateCharts(charts, 1, data, d, by, canvases, DestroyExisting(reg, lv, d))

---------------------------------------------------------------------------
(* DashboardOrchestrator: render passes on the event loop                  *)

IdlePass == [pc |-> "idle", dash |-> <<>>, from |-> "", payload |-> 0]

\* a call that has run to its end; its closure is garbage
DonePass == [pc |-> "done", dash |-> <<>>, from |-> "", payload |-> 0]

InFlight(p) == passes[p].pc = "fetching"

\* a variant that aborts the fetches of the earlier calls
StartRenderAborting(ps, n, d, from) ==
    [q \in Passes |->
        IF q = n + 1
        THEN [IdlePass EXCEPT !.pc = "fetching", !.dash = d, !.from = from]
        ELSE IF ps[q].pc = "fetching"
        THEN DonePass
        ELSE ps[q]]

\* renderDeclarativeDashboard up to its first await (lines 76-92): the
\* call is pass n + 1, made from the page or from a click listener; the
\* loading indicator is mounted by the caller
StartRender(ps, n, d, from) ==
    [ps EXCEPT ![n + 1] =
        [IdlePass EXCEPT !.pc = "fetching", !.dash = d, !.from = from]]

\* the page calls DashboardRenderer.renderDeclarativeDashboard
Render(d) ==
    /\ nPasses < MaxRenders
    /\ passes' = StartRender(passes, nPasses, d, "page")
    /\ nPasses' = nPasses + 1
    /\ container' = Dom("loading", nPasses + 1, d)
    /\ listeners' = EmptyFn
    /\ UNCHANGED <<dashboardCharts, live, destroyed, tableSortState,
                   heatmapRegistry, chartLib, returns, fvars, xvars, ts>>

\* a variant of the failure branch that fetches again
FailedPassRetrying(pass) ==
    [pass EXCEPT !.pc = "fetching"]

\* the pass after "if (!data) { ...; return null; }" (lines 94-101)
FailedPass(pass) == DonePass

\* loadDashboardData caught an error and returned null
RenderFailed(p) ==
    /\ passes' = [passes EXCEPT ![p] = FailedPass(@)]
    /\ returns' = [n |-> returns.n + 1, by |-> p, value |-> "null"]
    /\ container' = Dom("failed", p, passes[p].dash)
    /\ listeners' = EmptyFn
    /\ UNCHANGED <<nPasses, dashboardCharts, live, destroyed, tableSortState,
                   heatmapRegistry, chartLib, fvars, xvars, ts>>

\* fetch(url) rejects
FetchRejects(p) ==
    /\ passes[p].pc = "fetching"
    /\ RenderFailed(p)

\* fetch(url) resolves with !response.ok
FetchNotOk(p) ==
    /\ passes[p].pc = "fetching"
    /\ RenderFailed(p)

\* fetch(url) resolves with response.ok and response.json() rejects
JsonRejects(p) ==
    /\ passes[p].pc = "fetching"
    /\ RenderFailed(p)

\* fetch(url) resolves with response.ok and response.json() with payload
\* k: lines 92 and 103-139
JsonResolves(p, k) ==
    LET d == passes[p].dash
        pl == Payloads[k]
        grid == renderChartsGrid(pl.charts, pl.data, d, p, tableSortState,
                                 heatmapRegistry)
    IN  /\ passes[p].pc = "fetching"
        /\ d \in pl.served
        /\ returns' = [n |-> returns.n + 1, by |-> p, value |-> "data"]
        /\ IF ~pl.is_available
           THEN /\ passes' = [passes EXCEPT ![p] = DonePass]
                /\ container' = Dom("unavailable", p, d)
                /\ listeners' = EmptyFn
                /\ UNCHANGED <<tableSortState, heatmapRegistry>>
           ELSE /\ passes' = [passes EXCEPT ![p] =
                      [@ EXCEPT !.pc = "timer", !.payload = k]]
                /\ container' = ContentDom(p, d, grid)
                /\ listeners' = [b \in grid.buttons |-> <<>>]
                /\ tableSortState' = grid.sortState
                /\ heatmapRegistry' = grid.hmReg
        /\ UNCHANGED <<nPasses, dashboardCharts, live, destroyed, chartLib, fvars, xvars, ts>>

\* setupTableSortHandlers: one more click listener on every
\* .table-sort-toggle button the container holds now
setupTableSortHandlers(ls, d) == [b \in DOMAIN ls |-> Append(ls[b], d)]

\* the body of the setTimeout callback once ensureScriptLoaded has
\* settled (lines 132-136); libOk: window.Chart is there
InitAndWire(p, libOk) ==
    LET d == passes[p].dash
        pl == Payloads[passes[p].payload]
        st == IF libOk
              THEN initializeCharts(pl.charts, pl.data, d, p,
                                    container.canvases, dashboardCharts, live)
              ELSE [reg |-> dashboardCharts, lv |-> live]
    IN  /\ dashboardCharts' = st.reg
        /\ live' = st.lv
        /\ destroyed' = destroyed \cup {h.key : h \in live \ st.lv}
        /\ listeners' = setupTableSortHandlers(listeners, d)
        /\ passes' = [passes EXCEPT ![p] = DonePass]

\* the setTimeout(..., 0) callback of line 131 runs
TimerFires(p) ==
    /\ passes[p].pc = "timer"
    /\ IF chartLib = "loaded"
       THEN /\ InitAndWire(p, TRUE)
            /\ UNCHANGED chartLib
       ELSE /\ passes' = [passes EXCEPT ![p].pc = "waitLib"]
            /\ chartLib' = IF chartLib = "absent" THEN "loading" ELSE chartLib
            /\ UNCHANGED <<dashboardCharts, live, destroyed, listeners>>
    /\ UNCHANGED <<nPasses, container, tableSortState, heatmapRegistry,
                   returns, fvars, xvars, ts>>

\* script.onload of the Chart.js tag, window.Chart is defined
LibLoads ==
    /\ chartLib = "loading"
    /\ chartLib' = "loaded"
    /\ UNCHANGED <<passes, nPasses, container, listeners, dashboardCharts,
                   live, destroyed, tableSortState, heatmapRegistry,
                   returns, fvars, xvars, ts>>

\* script.onerror of the Chart.js tag
LibFails ==
    /\ chartLib = "loading"
    /\ chartLib' = "failed"
    /\ UNCHANGED <<passes, nPasses, container, listeners, dashboardCharts,
                   live, destroyed, tableSortState, heatmapRegistry,
                   returns, fvars, xvars, ts>>

\* the promise of ensureScriptLoaded settles for a waiting pass: resolved
\* when the library is there, rejected after a failed load
LibWaitEnds(p) ==
    /\ passes[p].pc = "waitLib"
    /\ chartLib \in {"loaded", "failed"}
    /\ InitAndWire(p, chartLib = "loaded")
    /\ UNCHANGED <<nPasses, container, tableSortState, heatmapRegistry,
                   chartLib, returns, fvars, xvars, ts>>

RECURSIVE ToggleTimes(_, _, _)
ToggleTimes(state, tableId, n) ==
    IF n = 0 THEN state
    ELSE ToggleTimes(toggleTableSort(state, tableId), tableId, n - 1)

RECURSIVE StartRenders(_, _, _, _)
StartRenders(ps, n, ds, i) ==
    IF i > Len(ds) THEN ps
    ELSE StartRenders(StartRender(ps, n, ds[i], "click"), n + 1, ds, i + 1)

\* A click is dispatched to a mounted sort-toggle button that has
\* listeners.  Every listener runs (lines 257-266): it toggles the table
\* and calls renderDeclarativeDashboard, which mounts the loading
\* indicator and starts its fetch before the next listener runs.
Click(t) ==
    LET hs == listeners[t]
    IN  /\ Len(hs) >= 1
        /\ nPasses + Len(hs) <= MaxPasses
        /\ tableSortState' = ToggleTimes(tableSortState, t, Len(hs))
        /\ passes' = StartRenders(passes, nPasses, hs, 1)
        /\ nPasses' = nPasses + Len(hs)
        /\ container' = Dom("loading", nPasses + Len(hs), hs[Len(hs)])
        /\ listeners' = EmptyFn
        /\ UNCHANGED <<dashboardCharts, live, destroyed, heatmapRegistry,
                       chartLib, returns, fvars, xvars, ts>>

---------------------------------------------------------------------------
TLIdle == [pc |-> "off"]

\* a variable of a specification that is not running
Off == [pc |-> "off"]

\* the dashboard renderer has not been called
DashboardIdle ==
    /\ passes = [p \in Passes |-> IdlePass]
    /\ nPasses = 0
    /\ container = Dom("empty", 0, <<>>)
    /\ listeners = EmptyFn
    /\ dashboardCharts = EmptyFn
    /\ live = {}
    /\ destroyed = {}
    /\ tableSortState = EmptyFn
    /\ heatmapRegistry = EmptyFn
    /\ chartLib = "loaded"
    /\ returns = [n |-> 0, by |-> 0, value |-> "none"]

Init ==
    /\ passes = [p \in Passes |-> IdlePass]
    /\ nPasses = 0
    /\ container = Dom("empty", 0, <<>>)
    /\ listeners = EmptyFn
    /\ dashboardCharts = EmptyFn
    /\ live = {}
    /\ destroyed = {}
    /\ tableSortState = EmptyFn
    /\ heatmapRegistry = EmptyFn
    /\ chartLib \in {"absent", "loaded"}
    /\ returns = [n |-> 0, by |-> 0, value |-> "none"]
    /\ tl = TLIdle
    /\ pct = Off /\ hm = Off /\ sl = Off /\ car = Off
    /\ rz = Off /\ wc = Off /\ wf = Off /\ ts = Off

Next ==
    \/ \E d \in Dashboards : Render(d)
    \/ \E p \in Passes : FetchRejects(p)
    \/ \E p \in Passes : FetchNotOk(p)
    \/ \E p \in Passes : JsonRejects(p)
    \/ \E p \in Passes, k \in PayloadIds : JsonResolves(p, k)
    \/ \E p \in Passes : TimerFires(p)
    \/ LibLoads
    \/ LibFails
    \/ \E p \in Passes : LibWaitEnds(p)
    \/ \E t \in DOMAIN listeners : Click(t)

Spec == Init /\ [][Next]_vars

---------------------------------------------------------------------------
(* Claims on Spec                                                          *)

Flip(dir) == IF dir = "desc" THEN "asc" ELSE "desc"

\* the step dispatches a click: its listeners have called
\* renderDeclarativeDashboard
ClickStep ==
    /\ nPasses' > nPasses
    /\ passes'[nPasses'].from = "click"

\* the step in which pass p runs initializeCharts with window.Chart there
InitStepWithLib(p) ==
    /\ passes[p].pc \in {"timer", "waitLib"}
    /\ passes'[p].pc = "done"
    /\ chartLib = "loaded"

\* C1: after any sequence of render passes, sequential or overlapping, at
\* most one Chart instance that was created and not yet destroyed exists
\* for a key "{dashboardId}-{chartId}", and it is the registered one.
C1_AtMostOneLiveHandlePerKey ==
    /\ \A h1, h2 \in live : h1.key = h2.key => h1 = h2
    /\ \A h \in live : h.key \in DOMAIN dashboardCharts
                       /\ dashboardCharts[h.key] = h

\* a key whose earlier instance was destroyed and for which a later pass
\* has created the one live instance
C1_Witness ==
    \E h \in live :
        /\ h.key \in destroyed
        /\ h.by > 1
        /\ dashboardCharts[h.key] = h

\* C2: when a step replaces the content of the container for
\* dashboard d, no Chart instance is registered under a key that starts
\* with d.
C2_DestroyedBeforeContentReplaced ==
    [][\A d \in Dashboards :
          (container' # container /\ container'.dash = d)
          => \A k \in DOMAIN dashboardCharts : ~StartsWith(k, d)]_vars

\* What the code does guarantee in place of C2: a pass that runs
\* initializeCharts with the chart library loaded destroys and unregisters
\* every instance registered under a key that starts with its dashboard id
\* before it registers its own; every other step, replacing the
\* container's content included, leaves the registry and the live
\* instances as they are.
DestroyedBeforeCreate ==
    [][/\ \A p \in Passes :
             InitStepWithLib(p)
             => \A k \in DOMAIN dashboardCharts :
                   StartsWith(k, passes[p].dash)
                   => /\ dashboardCharts[k] \notin live'
                      /\ k \in DOMAIN dashboardCharts'
                         => dashboardCharts'[k].by = p
       /\ (\A q \in Passes : ~InitStepWithLib(q))
          => dashboardCharts' = dashboardCharts /\ live' = live]_vars

\* rows in the order the comparator of sortData asks for: defined values
\* before null ones, defined values in the given direction
SortedBy(rows, key, dir) ==
    \A i, j \in 1..Len(rows) :
        i < j =>
            LET a == Field(rows[i], key)
                b == Field(rows[j], key)
            IN  /\ ~(a.t = "null" /\ b.t # "null")
                /\ (a.t = "number" /\ b.t = "number")
                   => IF dir = "desc" THEN a.v >= b.v ELSE a.v <= b.v

\* C3: a click that runs one handler calls toggleTableSort once, which
\* flips the direction of that table's SortState and leaves the key; and a
\* rendered table always shows its rows in the direction its SortState
\* holds, so the render that follows a toggle shows the new direction.
C3_ToggleFlipsAndRenderSorts ==
    [][/\ (ClickStep /\ nPasses' = nPasses + 1)
          => \E t \in DOMAIN tableSortState :
                /\ t \in DOMAIN listeners
                /\ tableSortState' =
                      [tableSortState EXCEPT ![t].direction = Flip(@)]
       /\ \A t \in DOMAIN container'.tables :
             SortedBy(container'.tables[t], tableSortState'[t].key,
                      tableSortState'[t].direction)]_vars

\* after a toggle the table is rendered ascending by count
C3_Witness ==
    /\ container.kind = "content"
    /\ passes[container.by].from = "click"
    /\ \E t \in DOMAIN container.tables :
          /\ tableSortState[t] = [key |-> "count", direction |-> "asc"]
          /\ container.tables[t] = <<TableRows[1], TableRows[3], TableRows[2]>>

\* C4: a SortState appears when its table is rendered for the first time,
\* never disappears, keeps its key, and changes its direction only in a
\* click step; a render whose config carries other sort options leaves it.
C4_SortStateOnlyToggled ==
    [][/\ \A t \in DOMAIN tableSortState :
             /\ t \in DOMAIN tableSortState'
             /\ tableSortState'[t].key = tableSortState[t].key
             /\ ~ClickStep => tableSortState'[t] = tableSortState[t]
       /\ \A t \in DOMAIN tableSortState' \ DOMAIN tableSortState :
             /\ t \in DOMAIN container'.tables
             /\ LET charts == Payloads[passes'[container'.by].payload].charts
                IN  \E i \in 1..Len(charts) :
                       LET c == charts[i]
                       IN  /\ t = TableId(container'.dash, c.id)
                           /\ tableSortState'[t].key = TableDefaultSortKey(c)
                           /\ tableSortState'[t].direction =
                                 IF c.options.sort_direction = "" THEN "desc"
                                 ELSE c.options.sort_direction
       /\ \A t \in DOMAIN container'.tables : t \in DOMAIN tableSortState']_vars

\* the table is mounted by a pass whose config asks for key turns,
\* ascending, while the stored state is still the one of the first render
C4_Witness ==
    /\ container.kind = "content"
    /\ passes[container.by].payload = 2
    /\ \E t \in DOMAIN container.tables :
          tableSortState[t] = [key |-> "count", direction |-> "desc"]

\* C5 (as stated): a click on a mounted sort-toggle button flips the
\* direction of one SortState exactly once and starts exactly one render.
C5_ClickFlipsOnceAndRendersOnce ==
    [][ClickStep
       => /\ nPasses' = nPasses + 1
          /\ \E t \in DOMAIN tableSortState :
                tableSortState' =
                    [tableSortState EXCEPT ![t].direction = Flip(@)]]_vars

\* C6: no render is cancelled: every pass that is no longer fetching has
\* applied its own response; and once no fetch is in flight the container
\* holds what the pass whose response arrived last has put there.
C6_LastArrivalShown ==
    /\ returns.n = Cardinality({p \in 1..nPasses : ~InFlight(p)})
    /\ (nPasses >= 1 /\ \A p \in 1..nPasses : ~InFlight(p))
       => /\ container.by = returns.by
          /\ container.kind \in {"failed", "unavailable", "content"}
          /\ (container.kind = "failed") <=> (returns.value = "null")

\* the response of the render triggered first arrived after the response
\* of the render triggered second, and is what the container shows
C6_Witness ==
    /\ nPasses = 2
    /\ ~InFlight(1) /\ ~InFlight(2)
    /\ returns = [n |-> 2, by |-> 1, value |-> "data"]
    /\ container.by = 1
    /\ container.kind = "content"

\* C7: the step in which a pass mounts the failure message is the step
\* in which its fetch fails; it ends the pass, which returns null, starts
\* no fetch, and touches neither the registry, the heatmap states, the
\* sort states nor any listener; a pass that has ended never moves again,
\* and a Chart instance is only ever created by a pass that has mounted
\* content.
C7_FailedFetchIsTerminal ==
    [][\A p \in Passes :
          /\ (container' # container /\ container'.kind = "failed"
                /\ container'.by = p)
             => /\ passes[p].pc = "fetching"
                /\ passes'[p].pc = "done"
                /\ returns' = [n |-> returns.n + 1, by |-> p, value |-> "null"]
                /\ container' = Dom("failed", p, passes[p].dash)
                /\ \A q \in Passes \ {p} : passes'[q] = passes[q]
                /\ nPasses' = nPasses
                /\ dashboardCharts' = dashboardCharts
                /\ live' = live
                /\ destroyed' = destroyed
                /\ heatmapRegistry' = heatmapRegistry
                /\ tableSortState' = tableSortState
                /\ listeners' = EmptyFn
          /\ passes[p].pc = "done" => passes'[p] = passes[p]
          /\ (\E h \in live' \ live : h.by = p)
             => passes[p].pc \in {"timer", "waitLib"}]_vars

\* a re-render failed: the failure message is mounted, null was returned
\* and the instances of the earlier pass are untouched
C7_Witness ==
    \E p \in Passes :
        /\ passes[p].pc = "done"
        /\ returns.by = p
        /\ returns.value = "null"
        /\ container.kind = "failed"
        /\ container.by = p
        /\ live # {}

\* C8: the grid a pass mounts holds a card for exactly the configured
\* charts whose data is a non-empty array, and the pass goes on to its
\* deferred initialisation (no error); when the pass initialises its own mounted grid with the
\* chart library loaded, every configured standard chart that has data
\* gets its Chart instance, and a chart without data gets none.
C8_MissingDataSkipsOnlyThatChart ==
    [][\A p \in Passes :
          /\ (passes[p].pc = "fetching" /\ passes'[p].pc = "timer")
             => LET pl == Payloads[passes'[p].payload]
                IN  /\ container'.by = p
                    /\ container'.cards =
                          {pl.charts[i].id : i \in
                              {j \in 1..Len(pl.charts) :
                                  HasData(pl.data, pl.charts[j].id)}}
          /\ (InitStepWithLib(p) /\ container.by = p)
             => LET pl == Payloads[passes[p].payload]
                    d == passes[p].dash
                IN  \A i \in 1..Len(pl.charts) :
                       LET c == pl.charts[i]
                           h == [by |-> p, key |-> ChartKey(d, c.id)]
                       IN  IF HasData(pl.data, c.id)
                           THEN c.chart_type \notin SkippedTypes
                                => /\ h \in live'
                                   /\ dashboardCharts'[h.key] = h
                           ELSE /\ h \notin live'
                                /\ c.id \notin container.cards]_vars

\* chart y had no data: it has no card, and chart x of the same pass is
\* mounted and initialised
C8_Witness ==
    /\ container.kind = "content"
    /\ passes[container.by].pc = "done"
    /\ cy \notin container.cards
    /\ cx \in container.cards
    /\ [by |-> container.by, key |-> ChartKey(container.dash, cx)] \in live

---------------------------------------------------------------------------
(* TimelineAggregator: createTimelineChart of chart-renderer.js            *)
(* (src/web/static/charts/heatmap-renderer.js:1025-1245)                   *)
(*                                                                         *)
(* Instants are whole hours since 2024-01-01T00:00Z (a Monday), a date     *)
(* string is its form and the day and hour it names, tz is the offset of   *)
(* local time from UTC in hours.                                           *)

MaxRows == 2

DateStr(day) == [form |-> "date", day |-> day, hour |-> 0]      \* "YYYY-MM-DD"
DateT(day, hour) == [form |-> "T", day |-> day, hour |-> hour]  \* "YYYY-MM-DDTHH:00:00"
DateSp(day, hour) == [form |-> "space", day |-> day, hour |-> hour] \* "YYYY-MM-DD HH:00:00"
BadDate == [form |-> "bad", day |-> 0, hour |-> 0]              \* "n/a"
BlankDate == [form |-> "blank", day |-> 0, hour |-> 0]          \* "  "
NoDate == [form |-> "null", day |-> 0, hour |-> 0]              \* null, undefined

Text == [t |-> "text", v |-> 0]       \* a string that is no number
NumText(n) == [t |-> "numtext", v |-> n]  \* the string of the number n

Row(x, v) == [date |-> x, v |-> v]

\* the rows the inputs are made of
RowValues ==
    {Row(DateStr(d), Num(1)) : d \in {0, 1, 13, 14, 15, 84, 100, 400, 720, 800}}
    \cup {Row(DateStr(0), Num(3)), Row(DateStr(1), Num(3)),
          Row(DateStr(0), Text), Row(DateStr(13), Text),
          Row(DateStr(0), NumText(2)), [date |-> DateStr(1)]}
    \cup {Row(DateT(0, 0), Num(1)), Row(DateT(0, 23), Num(3)),
          Row(DateT(1, 1), Num(1)), Row(DateSp(0, 23), Num(1))}
    \cup {Row(BadDate, Num(1)), Row(BlankDate, Num(3)), Row(NoDate, Num(1))}

TimeZones == {-5, 0, 9}

TLRows == UNION {[1..n -> RowValues] : n \in 1..MaxRows}

\* the datasets of the chart config
Datasets == <<"v">>

\* raw.includes(' ') && !raw.includes('T') ? raw.replace(' ', 'T') : raw
Normalize(raw) == IF raw.form = "space" THEN [raw EXCEPT !.form = "T"] ELSE raw

\* new Date(normalized).getTime(): a date-only string is UTC midnight, a
\* date-time string without offset is local time; [ok |-> FALSE] is NaN
ParseDate(normalized, tz) ==
    IF normalized.form = "date"
    THEN [ok |-> TRUE, t |-> normalized.day * 24]
    ELSE IF normalized.form = "T"
    THEN [ok |-> TRUE, t |-> normalized.day * 24 + normalized.hour - tz]
    ELSE [ok |-> FALSE, t |-> 0]

\* a variant that gives up on all rows when one has no parseable x value
ParsePointsAllOrNone(data, tz) ==
    IF \E i \in 1..Len(data) :
          ~ParseDate(Normalize(data[i].date), tz).ok
    THEN <<>>
    ELSE [i \in 1..Len(data) |->
             [t |-> ParseDate(Normalize(data[i].date), tz).t, row |-> data[i]]]

\* lines 1037-1045: the rows with a parseable x value, with their instant
ParsePoints(data, tz) ==
    LET present == SelectSeq(data, LAMBDA d : d.date.form \notin {"null", "blank"})
        parsed == [i \in 1..Len(present) |->
                      [t |-> ParseDate(Normalize(present[i].date), tz),
                       row |-> present[i]]]
        valid == SelectSeq(parsed, LAMBDA q : q.t.ok)
    IN  [i \in 1..Len(valid) |-> [t |-> valid[i].t.t, row |-> valid[i].row]]

\* points.sort((a, b) => a.dateObj - b.dateObj), a stable sort
InsertPoint(sorted, x) ==
    LET after == {j \in 1..Len(sorted) : sorted[j].t - x.t > 0}
        pos == IF after = {} THEN Len(sorted) + 1
               ELSE CHOOSE j \in after : \A k \in after : j <= k
    IN  SubSeq(sorted, 1, pos - 1) \o <<x>> \o SubSeq(sorted, pos, Len(sorted))

RECURSIVE SortPoints(_, _)
SortPoints(points, n) ==
    IF n = 0 THEN <<>> ELSE InsertPoint(SortPoints(points, n - 1), points[n])

\* a variant that tests the day threshold first
TimeUnitDayFirst(diffHours) ==
    IF diffHours <= 14 * 24 THEN "day"
    ELSE IF diffHours <= 24 THEN "hour"
    ELSE IF diffHours <= 12 * 7 * 24 THEN "week"
    ELSE IF diffHours <= 24 * 30 * 24 THEN "month"
    ELSE "year"

\* a variant with a strict first threshold
TimeUnitStrict(diffHours) ==
    IF diffHours < 24 THEN "hour"
    ELSE IF diffHours <= 14 * 24 THEN "day"
    ELSE IF diffHours <= 12 * 7 * 24 THEN "week"
    ELSE IF diffHours <= 24 * 30 * 24 THEN "month"
    ELSE "year"

\* a variant whose month threshold is 12 months
TimeUnitYearAfter12Months(diffHours) ==
    IF diffHours <= 24 THEN "hour"
    ELSE IF diffHours <= 14 * 24 THEN "day"
    ELSE IF diffHours <= 12 * 7 * 24 THEN "week"
    ELSE IF diffHours <= 12 * 30 * 24 THEN "month"
    ELSE "year"

\* lines 1055-1066; diffDays = diffHours / 24, diffWeeks = diffDays / 7,
\* diffMonths = diffDays / 30, compared here without the divisions
TimeUnit(diffHours) ==
    IF diffHours <= 24 THEN "hour"
    ELSE IF diffHours <= 14 * 24 THEN "day"
    ELSE IF diffHours <= 12 * 7 * 24 THEN "week"
    ELSE IF diffHours <= 24 * 30 * 24 THEN "month"
    ELSE "year"

\* the local calendar: getFullYear, getMonth() + 1, getDate, getHours, getDay
YearStart(y) == IF y = 2023 THEN -365 ELSE IF y = 2024 THEN 0
                ELSE IF y = 2025 THEN 366 ELSE 731

FullYear(localDay) == IF localDay < 0 THEN 2023 ELSE IF localDay < 366 THEN 2024
                      ELSE IF localDay < 731 THEN 2025 ELSE 2026

\* the days of year y before its month m
DaysBefore(y, m) ==
    IF y = 2024
    THEN <<0, 31, 60, 91, 121, 152, 182, 213, 244, 274, 305, 335>>[m]
    ELSE <<0, 31, 59, 90, 120, 151, 181, 212, 243, 273, 304, 334>>[m]

Month(localDay) ==
    LET y == FullYear(localDay)
        doy == localDay - YearStart(y)
    IN  Cardinality({m \in 1..12 : DaysBefore(y, m) <= doy})

DayOfMonth(localDay) ==
    LET y == FullYear(localDay)
    IN  localDay - YearStart(y) - DaysBefore(y, Month(localDay)) + 1

LocalDay(t, tz) == (t + tz) \div 24
Hours(t, tz) == (t + tz) % 24
WeekDay(localDay) == (localDay + 1) % 7       \* getDay(), 0 is Sunday

\* toIsoDate, as the numbers it prints zero-padded
toIsoDate(localDay) == <<FullYear(localDay), Month(localDay), DayOfMonth(localDay)>>

\* bucketKeyAndSort; a key is the tuple its string is printed from, a sort
\* key the tuple <<year, month, day, hour>> of its zero-padded ISO string
bucketKeyAndSort(t, tz, timeUnit) ==
    LET ld == LocalDay(t, tz)
        ymd == toIsoDate(ld)
    IN  IF timeUnit = "hour" THEN
            [key |-> <<"hour">> \o ymd \o <<Hours(t, tz)>>,
             sortKey |-> ymd \o <<Hours(t, tz)>>]
        ELSE IF timeUnit = "week" THEN
            LET diffToMonday == (WeekDay(ld) + 6) % 7
                monday == toIsoDate(ld - diffToMonday)
            IN  [key |-> <<"week">> \o monday, sortKey |-> monday \o <<0>>]
        ELSE IF timeUnit = "month" THEN
            [key |-> <<"month", ymd[1], ymd[2]>>, sortKey |-> <<ymd[1], ymd[2], 1, 0>>]
        ELSE IF timeUnit = "year" THEN
            [key |-> <<"year", ymd[1]>>, sortKey |-> <<ymd[1], 1, 1, 0>>]
        ELSE [key |-> <<"day">> \o ymd, sortKey |-> ymd \o <<0>>]

\* a variant that counts a value that is no number as 1
FiniteOrOne(cell) == IF cell.t \in {"number", "numtext"} THEN cell.v ELSE 1

\* typeof v === 'number' ? v : Number(v), then Number.isFinite(n) ? n : 0;
\* Number of undefined and of a string that is no number is NaN
FiniteOrZero(cell) == IF cell.t \in {"number", "numtext"} THEN cell.v ELSE 0

\* lines 1117-1133: the buckets in insertion order
RECURSIVE Accumulate(_, _, _, _, _)
Accumulate(points, i, tz, timeUnit, buckets) ==
    IF i > Len(points) THEN buckets
    ELSE LET ks == bucketKeyAndSort(points[i].t, tz, timeUnit)
             at == {j \in 1..Len(buckets) : buckets[j].label = ks.key}
             add == [f \in {Datasets[k] : k \in 1..Len(Datasets)} |->
                        FiniteOrZero(Field(points[i].row, f))]
         IN  Accumulate(points, i + 1, tz, timeUnit,
                 IF at = {}
                 THEN Append(buckets, [label |-> ks.key, sortKey |-> ks.sortKey,
                                       count |-> 1, sums |-> add])
                 ELSE LET j == CHOOSE j \in at : TRUE
                      IN  [buckets EXCEPT
                              ![j].count = @ + 1,
                              ![j].sums = [f \in DOMAIN add |-> @[f] + add[f]]])

\* String(a.sortKey).localeCompare(String(b.sortKey)) < 0
SortKeyLess(a, b) ==
    \E i \in 1..4 : a[i] < b[i] /\ \A j \in 1..(i - 1) : a[j] = b[j]

InsertBucket(sorted, x) ==
    LET after == {j \in 1..Len(sorted) : SortKeyLess(x.sortKey, sorted[j].sortKey)}
        pos == IF after = {} THEN Len(sorted) + 1
               ELSE CHOOSE j \in after : \A k \in after : j <= k
    IN  SubSeq(sorted, 1, pos - 1) \o <<x>> \o SubSeq(sorted, pos, Len(sorted))

RECURSIVE SortBuckets(_, _)
SortBuckets(buckets, n) ==
    IF n = 0 THEN <<>> ELSE InsertBucket(SortBuckets(buckets, n - 1), buckets[n])

NoChart == [made |-> FALSE, timeUnit |-> "", diffHours |-> 0, labels |-> <<>>,
            data |-> <<>>, counts |-> <<>>]

\* createTimelineChart, percentage mode off: what the Chart is built from
createTimelineChart(data, tz) ==
    LET parsed == ParsePoints(data, tz)
        points == SortPoints(parsed, Len(parsed))
    IN  IF Len(data) = 0 \/ Len(points) = 0 THEN NoChart
        ELSE LET first == points[1].t
                 last == points[Len(points)].t
                 diffHours == IF last - first < 0 THEN first - last ELSE last - first
                 timeUnit == TimeUnit(diffHours)
                 acc == Accumulate(points, 1, tz, timeUnit, <<>>)
                 buckets == SortBuckets(acc, Len(acc))
             IN  [made |-> TRUE, timeUnit |-> timeUnit, diffHours |-> diffHours,
                  labels |-> [i \in 1..Len(buckets) |-> buckets[i].label],
                  data |-> [k \in 1..Len(Datasets) |->
                              [i \in 1..Len(buckets) |-> buckets[i].sums[Datasets[k]]]],
                  counts |-> [i \in 1..Len(buckets) |-> buckets[i].count]]

TLInit ==
    /\ tl \in [pc : {"input"}, rows : TLRows, tz : TimeZones, chart : {NoChart}]
    /\ passes = [p \in Passes |-> IdlePass]
    /\ nPasses = 0
    /\ container = Dom("empty", 0, <<>>)
    /\ listeners = EmptyFn
    /\ dashboardCharts = EmptyFn
    /\ live = {}
    /\ destroyed = {}
    /\ tableSortState = EmptyFn
    /\ heatmapRegistry = EmptyFn
    /\ chartLib = "loaded"
    /\ returns = [n |-> 0, by |-> 0, value |-> "none"]
    /\ pct = Off /\ hm = Off /\ sl = Off /\ car = Off
    /\ rz = Off /\ wc = Off /\ wf = Off /\ ts = Off

\* createChart hands the rows of a chart with datasets to createTimelineChart
TLCreate ==
    /\ tl.pc = "input"
    /\ tl' = [tl EXCEPT !.pc = "done", !.chart = createTimelineChart(tl.rows, tl.tz)]
    /\ UNCHANGED <<dvars, xvars, ts, pct, hm, sl, car>>

TLNext == TLCreate

SpecTL == TLInit /\ [][TLNext]_vars

---------------------------------------------------------------------------
(* Claims on SpecTL                                                        *)

Coarseness(unit) ==
    IF unit = "hour" THEN 1 ELSE IF unit = "day" THEN 2
    ELSE IF unit = "week" THEN 3 ELSE IF unit = "month" THEN 4 ELSE 5

\* the unit the claim's thresholds give a span of h hours, a month being
\* 30 days
ClaimedUnit(h) ==
    CASE h <= 24 -> "hour"
      [] h > 24 /\ h <= 336 -> "day"
      [] h > 336 /\ h <= 2016 -> "week"
      [] h > 2016 /\ h <= 17280 -> "month"
      [] h > 17280 -> "year"

SampleSpans == {0, 23, 24, 25, 312, 336, 337, 360, 2016, 2017, 2400, 17280,
                17281, 19200}

\* C9: the unit of a chart is the first threshold its span matches, the
\* spans 23h, 25h, 13d, 15d, 100d and 800d give hour, day, day, week,
\* month and year, and a chart with a smaller span never has a coarser
\* unit.
C9_UnitByFirstThreshold ==
    (tl.pc = "done" /\ tl.chart.made)
    => /\ tl.chart.timeUnit = ClaimedUnit(tl.chart.diffHours)
       /\ tl.chart.diffHours = 23 => tl.chart.timeUnit = "hour"
       /\ tl.chart.diffHours = 25 => tl.chart.timeUnit = "day"
       /\ tl.chart.diffHours = 13 * 24 => tl.chart.timeUnit = "day"
       /\ tl.chart.diffHours = 15 * 24 => tl.chart.timeUnit = "week"
       /\ tl.chart.diffHours = 100 * 24 => tl.chart.timeUnit = "month"
       /\ tl.chart.diffHours = 800 * 24 => tl.chart.timeUnit = "year"
       /\ \A h \in SampleSpans :
             /\ h <= tl.chart.diffHours
                => Coarseness(TimeUnit(h)) <= Coarseness(tl.chart.timeUnit)
             /\ h >= tl.chart.diffHours
                => Coarseness(TimeUnit(h)) >= Coarseness(tl.chart.timeUnit)

\* two rows 15 days apart are bucketed by week
C9_Witness ==
    /\ tl.pc = "done"
    /\ tl.chart.made
    /\ tl.chart.diffHours = 15 * 24
    /\ tl.chart.timeUnit = "week"

ScenarioA == <<[date |-> DateStr(0), v |-> Num(1)],
               [date |-> DateStr(1), v |-> Num(3)]>>

\* C10 (as stated): the rows of scenario A are bucketed by day into two
\* buckets with the values 1 and 3.
C10_ScenarioADay ==
    (tl.pc = "done" /\ tl.rows = ScenarioA)
    => /\ tl.chart.made
       /\ tl.chart.timeUnit = "day"
       /\ Len(tl.chart.labels) = 2
       /\ tl.chart.data = <<<<1, 3>>>>

\* C10 (amended): the two dates are exactly 24 hours apart, which the
\* first threshold matches: the rows are bucketed by hour, into two
\* buckets with the values 1 and 3 in that order.
C10_ScenarioAHour ==
    (tl.pc = "done" /\ tl.rows = ScenarioA)
    => /\ tl.chart.made
       /\ tl.chart.diffHours = 24
       /\ tl.chart.timeUnit = "hour"
       /\ Len(tl.chart.labels) = 2
       /\ tl.chart.labels[1] # tl.chart.labels[2]
       /\ tl.chart.data = <<<<1, 3>>>>

C10_Witness ==
    /\ tl.pc = "done"
    /\ tl.rows = ScenarioA
    /\ tl.chart.made
    /\ tl.chart.timeUnit = "hour"
    /\ tl.chart.data = <<<<1, 3>>>>

\* C11 (as stated): rows whose earliest and latest timestamps are 400
\* days apart are bucketed by year.
C11_Span400DaysYear ==
    (tl.pc = "done" /\ tl.chart.made /\ tl.chart.diffHours = 400 * 24)
    => tl.chart.timeUnit = "year"

\* C11 (amended): 400 days are 13.3 months of 30 days, which the fourth
\* threshold (span <= 24 months) matches: the rows are bucketed by month,
\* into two buckets at least.
C11_Span400DaysMonth ==
    (tl.pc = "done" /\ tl.chart.made /\ tl.chart.diffHours = 400 * 24)
    => /\ tl.chart.timeUnit = "month"
       /\ Len(tl.chart.labels) >= 2

\* the rows dated 2024-01-01 and 2025-02-04 have been charted
C11_Witness ==
    /\ tl.pc = "done"
    /\ tl.chart.made
    /\ tl.chart.diffHours = 400 * 24
    /\ tl.chart.timeUnit = "month"
    /\ Len(tl.rows) = 2

---------------------------------------------------------------------------
(* TimelineAggregator: percentage mode of createTimelineChart              *)
(* (src/web/static/charts/heatmap-renderer.js:1135-1155)                   *)
(*                                                                         *)
(* A bucket holds its row count and one sum per dataset field.  Numbers    *)
(* are fractions: the emitted values of a bucket are the numerators vals   *)
(* over the common denominator den.  With the sums and counts drawn here   *)
(* no product avg * scale * 10 lies on a rounding tie.                     *)

MaxFields == 6      \* configured dataset fields
MaxCount == 2       \* rows of a bucket

\* what the rows of a bucket add up to in one field
FieldSums == {-1, 0, 1, 2}

PctBuckets ==
    UNION {[count : 1..MaxCount, sums : [1..k -> FieldSums]] : k \in 1..MaxFields}

RECURSIVE SumSeq(_, _)
SumSeq(xs, n) == IF n = 0 THEN 0 ELSE xs[n] + SumSeq(xs, n - 1)

\* Math.round(n / d) for d > 0: the nearest integer, halves go up
MathRound(n, d) == (2 * n + d) \div (2 * d)

\* lines 1137-1153 for one bucket: the averages sums[f] / count, total
\* their sum, scale = 100 / total, and every field replaced by
\* Math.round(avg * scale * 10) / 10 when total > 0
PercentageMode(count, sums) ==
    LET total == SumSeq(sums, Len(sums))       \* count * total of the code
    IN  IF total > 0
        THEN [den |-> 10,
              vals |-> [f \in 1..Len(sums) |-> MathRound(1000 * sums[f], total)]]
        ELSE [den |-> count, vals |-> sums]

PMInit ==
    /\ pct \in [pc : {"input"}, bucket : PctBuckets,
                out : {[den |-> 1, vals |-> <<>>]}]
    /\ DashboardIdle
    /\ tl = TLIdle /\ hm = Off /\ sl = Off /\ car = Off
    /\ rz = Off /\ wc = Off /\ wf = Off /\ ts = Off

\* the percentage block runs over the bucket
PMNormalize ==
    /\ pct.pc = "input"
    /\ pct' = [pct EXCEPT !.pc = "done",
                          !.out = PercentageMode(pct.bucket.count, pct.bucket.sums)]
    /\ UNCHANGED <<dvars, xvars, ts, tl, hm, sl, car>>

PMNext == PMNormalize

SpecPM == PMInit /\ [][PMNext]_vars

\* C12: in percentage mode the emitted values of a bucket sum to 100 give
\* or take 0.1 when the total of its averages is positive, and to 0 when
\* the total is 0.
C12_PercentagesSumTo100 ==
    pct.pc = "done"
    => LET total == SumSeq(pct.bucket.sums, Len(pct.bucket.sums))
           sum == SumSeq(pct.out.vals, Len(pct.out.vals))
       IN  /\ total > 0 => /\ pct.out.den = 10
                           /\ sum >= 999 /\ sum <= 1001
           /\ total = 0 => sum = 0

---------------------------------------------------------------------------
(* HeatmapEngine: renderHeatmap and renderResponsiveHeatmap                *)
(* (src/web/static/charts/heatmap-renderer.js:108-471)                     *)
(*                                                                         *)
(* A string is the sequence of its character codes, so that the default    *)
(* Array.prototype.sort (by code units) and the regular expressions of     *)
(* renderHeatmap can be computed.                                          *)

RECURSIVE Digits(_)
\* String(n) for an integer n >= 0
Digits(n) == IF n < 10 THEN <<48 + n>> ELSE Digits(n \div 10) \o <<48 + (n % 10)>>

\* String(n).padStart(2, '0')
Pad2(n) == IF n < 10 THEN <<48>> \o Digits(n) ELSE Digits(n)

IsDigit(c) == c \in 48..57

\* /^\d+$/.test(l)
AllDigits(l) == Len(l) > 0 /\ \A i \in 1..Len(l) : IsDigit(l[i])

RECURSIVE NumberOf(_, _)
\* Number(l) of a string of digits, n its length
NumberOf(l, n) == IF n = 0 THEN 0 ELSE 10 * NumberOf(l, n - 1) + (l[n] - 48)

\* /^\d{4}-\d{1,2}-\d{1,2}$/.test(l)
MatchesDate(l) ==
    \E a \in 1..2, b \in 1..2 :
        /\ Len(l) = 6 + a + b
        /\ l[5] = 45 /\ l[6 + a] = 45
        /\ \A i \in (1..Len(l)) \ {5, 6 + a} : IsDigit(l[i])

\* a < b in the order of the default sort: by code units, a prefix first
LexLess(a, b) ==
    \/ Len(a) < Len(b) /\ SubSeq(b, 1, Len(a)) = a
    \/ \E i \in 1..Len(a) :
          /\ i <= Len(b)
          /\ a[i] < b[i]
          /\ SubSeq(a, 1, i - 1) = SubSeq(b, 1, i - 1)

\* a sorts before b: "lex" for the default sort of strings, "numeric" for
\* the comparator Number(a) - Number(b) on digit strings, "number" for
\* a - b on numbers
LessBy(order, a, b) ==
    CASE order = "lex" -> LexLess(a, b)
      [] order = "numeric" -> NumberOf(a, Len(a)) < NumberOf(b, Len(b))
      [] order = "number" -> a < b

\* Array.prototype.sort in the given order: stable, equal elements keep
\* their order
StableSort(s, order) ==
    LET before(i) == {j \in 1..Len(s) : \/ LessBy(order, s[j], s[i])
                                         \/ (~LessBy(order, s[i], s[j]) /\ j < i)}
    IN  [k \in 1..Len(s) |->
            s[CHOOSE i \in 1..Len(s) : Cardinality(before(i)) = k - 1]]

\* Array.from(new Set(arr)): the first occurrence of every element
Uniq(arr) ==
    LET firsts == {i \in 1..Len(arr) : \A j \in 1..(i - 1) : arr[j] # arr[i]}
    IN  [k \in 1..Cardinality(firsts) |->
            arr[CHOOSE i \in firsts :
                    Cardinality({j \in firsts : j < i}) = k - 1]]

\* y values of a point: a number or a string
YNum(n) == [t |-> "number", v |-> n, s |-> <<>>]
YStr(s) == [t |-> "string", v |-> 0, s |-> s]

\* String(y)
StringOf(y) == IF y.t = "number" THEN Digits(y.v) ELSE y.s

\* Number.isFinite(Number(y)) for the y values drawn here
IsNumeric(y) == y.t = "number" \/ AllDigits(y.s)

\* Number(y) of a numeric y
NumericValue(y) == IF y.t = "number" THEN y.v ELSE NumberOf(y.s, Len(y.s))

\* renderHeatmap (lines 131-167): the state stored in the registry for
\* points that have x, y and a finite value
renderHeatmapState(points) ==
    LET xs == Uniq([i \in 1..Len(points) |-> points[i].x])
        xAllNumeric == \A i \in 1..Len(xs) : AllDigits(xs[i])
        xLabels == IF xAllNumeric THEN StableSort(xs, "numeric")
                   ELSE StableSort(xs, "lex")
        yRaw == Uniq([i \in 1..Len(points) |-> points[i].y])
        allNumeric == \A i \in 1..Len(yRaw) : IsNumeric(yRaw[i])
        yNums == StableSort([i \in 1..Len(yRaw) |-> NumericValue(yRaw[i])], "number")
        yStrs == StableSort([i \in 1..Len(yRaw) |-> StringOf(yRaw[i])], "lex")
        keys == {<<points[i].x, StringOf(points[i].y)>> : i \in 1..Len(points)}
    IN  [xLabels |-> xLabels,
         yLabels |-> IF allNumeric THEN [i \in 1..Len(yNums) |-> Digits(yNums[i])]
                     ELSE yStrs,
         valueMap |-> [k \in keys |->
                         LET at == {i \in 1..Len(points) :
                                      <<points[i].x, StringOf(points[i].y)>> = k}
                         IN  points[CHOOSE i \in at : \A j \in at : j <= i].v],
         allNumeric |-> allNumeric,
         isDateAxis |-> Len(xLabels) > 0
                        /\ \A i \in 1..Len(xLabels) : MatchesDate(xLabels[i])]


\* Inputs: the x labels of a payload come from one of four families, label
\* i of each: hours of a counter ("9", "10", ...), ISO dates from
\* 2024-01-09 on, the same dates written without zero padding (as SQL
\* date parts concatenated give them), and two-letter category names.
XFamilies == {"hour", "padded", "unpadded", "word"}

\* Number of distinct x labels of a payload.
XCounts == {1, 2, 3, 40, 41}

YKinds == {"numbers", "digits", "words"}

\* month and day of the i-th day after 2024-01-09 (January and February)
MonthOf(i) == IF i + 9 <= 31 THEN 1 ELSE 2
DayOf(i) == IF i + 9 <= 31 THEN i + 9 ELSE i + 9 - 31

XLabel(fam, i) ==
    CASE fam = "hour" -> Digits(i + 9)
      [] fam = "padded" ->
            <<50, 48, 50, 52, 45>> \o Pad2(MonthOf(i)) \o <<45>> \o Pad2(DayOf(i))
      [] fam = "unpadded" ->
            <<50, 48, 50, 52, 45>> \o Digits(MonthOf(i)) \o <<45>> \o Digits(DayOf(i))
      [] fam = "word" -> <<97 + (i \div 26), 97 + (i % 26)>>

\* the y value of the k-th point: 10, 9, 2 in turn, as numbers, as digit
\* strings, or mixed with a word
YOf(kind, k) ==
    LET n == <<10, 9, 2>>[(k % 3) + 1]
    IN  CASE kind = "numbers" -> YNum(n)
          [] kind = "digits" -> YStr(Digits(n))
          [] kind = "words" -> IF k % 3 = 0 THEN YStr(<<98, 97>>) ELSE YStr(Digits(n))

\* The points of a payload after the filter of lines 120-127: the labels
\* arrive newest first, the oldest label is reported twice; values 0 to 3.
Points(fam, n, kind) ==
    [k \in 1..(n + 1) |->
        IF k <= n THEN [x |-> XLabel(fam, n - k), y |-> YOf(kind, k), v |-> k % 4]
        ELSE [x |-> XLabel(fam, 0), y |-> YOf(kind, k), v |-> 3]]

\* options.min_alpha / options.max_alpha in hundredths, each a sequence
\* that is empty when the config does not set the option
AlphaOptions ==
    {[min_alpha |-> <<>>, max_alpha |-> <<>>],
     [min_alpha |-> <<20>>, max_alpha |-> <<80>>],
     [min_alpha |-> <<90>>, max_alpha |-> <<10>>]}

\* Payloads and configs: every x family, count and y kind with the default
\* alpha range; the configured ranges with numeric y values.
HMInputs ==
    {i \in [fam : XFamilies, n : XCounts, kind : YKinds, options : AlphaOptions] :
        i.kind = "numbers" \/ i.options.min_alpha = <<>>}

NoState == [xLabels |-> <<>>, yLabels |-> <<>>, valueMap |-> <<>>,
            allNumeric |-> TRUE, isDateAxis |-> FALSE]

\* a canvas element: its mousemove and mouseleave listeners and whether its
\* class list holds interactive-attached
NoCanvas == [mousemove |-> 0, mouseleave |-> 0, attached |-> FALSE]

NoPaint == [containerWidth |-> 0, canvasWidth |-> 0, maxCols |-> 0,
            visibleXLabels |-> <<>>, cells |-> {}, canvas |-> NoCanvas,
            redraw |-> FALSE]

NoHit == [mx |-> 0, my |-> 0, shown |-> FALSE, colIdx |-> 0, rowIdx |-> 0]

HMInit ==
    /\ hm \in [pc : {"input"}, input : HMInputs, state : {NoState},
               paint : {NoPaint}, hit : {NoHit}]
    /\ DashboardIdle
    /\ tl = TLIdle /\ pct = Off /\ sl = Off /\ car = Off
    /\ rz = Off /\ wc = Off /\ wf = Off /\ ts = Off

\* renderHeatmap up to the registry store (line 159)
HMRender ==
    /\ hm.pc = "input"
    /\ hm' = [hm EXCEPT !.pc = "registered",
                        !.state = renderHeatmapState(
                                     Points(hm.input.fam, hm.input.n, hm.input.kind))]
    /\ UNCHANGED <<dvars, xvars, ts, tl, pct, sl, car>>


\* container.clientWidth of the chart's container, 0 before layout
ContainerWidths == {0, 100, 300, 500}

GAP_WIDTH == 4

ROW_HEIGHT == 20

Max(a, b) == IF a >= b THEN a ELSE b
Min(a, b) == IF a <= b THEN a ELSE b

\* container.clientWidth || 800
ContainerWidth(clientWidth) == IF clientWidth = 0 THEN 800 ELSE clientWidth

\* Widths in hundredths of a pixel, so that containerWidth * 0.15 and the
\* minimum box width 2.5 stay integers.
Y_LABEL_WIDTH100(isDateAxis, containerWidth) ==
    IF isDateAxis THEN 2400 ELSE Min(12000, Max(6000, 15 * containerWidth))

availableWidthForGrid100(isDateAxis, containerWidth) ==
    Max(10000, 100 * containerWidth
               - Y_LABEL_WIDTH100(isDateAxis, containerWidth) - 100 * GAP_WIDTH)

MIN_BOX_WIDTH100(isDateAxis) == IF isDateAxis THEN 250 ELSE 4000

\* Math.floor(availableWidthForGrid / MIN_BOX_WIDTH)
maxColsOf(isDateAxis, containerWidth) ==
    availableWidthForGrid100(isDateAxis, containerWidth) \div MIN_BOX_WIDTH100(isDateAxis)

\* xLabels.slice(totalCols - maxCols) when totalCols > maxCols
VisibleXLabels(xLabels, maxCols) ==
    IF Len(xLabels) > maxCols
    THEN SubSeq(xLabels, Len(xLabels) - maxCols + 1, Len(xLabels))
    ELSE xLabels

\* canvas.clientWidth: the canvas fills the flex item left of the row by
\* the y label column and the 4px gap of the template (lines 281-286)
CanvasClientWidth(isDateAxis, containerWidth) ==
    Max(0, (100 * containerWidth - Y_LABEL_WIDTH100(isDateAxis, containerWidth)
            - 100 * GAP_WIDTH) \div 100)

\* getX(i) = Math.floor(i * canvasWidth / numCols)
getX(i, canvasWidth, numCols) == (i * canvasWidth) \div numCols

\* valueMap.get(`${x}||${y}`) ?? 0
ValueAt(valueMap, x, y) == IF <<x, y>> \in DOMAIN valueMap THEN valueMap[<<x, y>>] ELSE 0

\* Math.max(...valueMap.values(), 0)
MaxV(valueMap) ==
    LET vs == {valueMap[k] : k \in DOMAIN valueMap} \cup {0}
    IN  CHOOSE m \in vs : \A v \in vs : v <= m

\* options.min_alpha ?? 0.10 and options.max_alpha ?? 0.90, in hundredths
MinA(options) == IF options.min_alpha = <<>> THEN 10 ELSE options.min_alpha[1]
MaxA(options) == IF options.max_alpha = <<>> THEN 90 ELSE options.max_alpha[1]

\* (maxA - minA) * ratio, the alpha without its offset minA
AlphaNumNoOffset(options, v, maxV) ==
    (MaxA(options) - MinA(options)) * Min(maxV, v)

\* minA + (maxA - minA) * Math.min(1, v / maxV) as the fraction
\* num / (100 * maxV)
AlphaNum(options, v, maxV) ==
    MinA(options) * maxV + (MaxA(options) - MinA(options)) * Min(maxV, v)

\* The cells the paint loop visits (lines 302-341): column c and row r of
\* the grid, the cell's value, whether it is filled with the chart's colour
\* and the alpha of the fill; ratio / den is Math.min(1, v / maxV).
PaintedCells(st, options, visible) ==
    LET maxV == MaxV(st.valueMap)
    IN  {[c |-> c, r |-> r,
          v |-> ValueAt(st.valueMap, visible[c + 1], st.yLabels[r + 1]),
          filled |-> ValueAt(st.valueMap, visible[c + 1], st.yLabels[r + 1]) > 0,
          num |-> IF ValueAt(st.valueMap, visible[c + 1], st.yLabels[r + 1]) > 0
                  THEN AlphaNum(options,
                                ValueAt(st.valueMap, visible[c + 1], st.yLabels[r + 1]),
                                maxV)
                  ELSE 0,
          ratio |-> Min(maxV, ValueAt(st.valueMap, visible[c + 1], st.yLabels[r + 1])),
          den |-> maxV] :
            c \in 0..(Len(visible) - 1), r \in 0..(Len(st.yLabels) - 1)}

\* the canvas stays the one of the previous paint
ReusedCanvas(old) == old

\* container.innerHTML = ... (lines 270-288): the canvas of the previous
\* paint leaves the document, the template's canvas is a new element
InjectedCanvas(old) == NoCanvas

\* canvas.cloneNode(true) (line 345): attributes are copied, listeners not
CloneNode(canvas) == [canvas EXCEPT !.mousemove = 0, !.mouseleave = 0]

\* lines 465-469
AttachInteractive(canvas) ==
    IF ~canvas.attached
    THEN [mousemove |-> canvas.mousemove + 1, mouseleave |-> canvas.mouseleave + 1,
          attached |-> TRUE]
    ELSE canvas

\* renderResponsiveHeatmap (lines 194-470): layout, column virtualization,
\* the paint loop, which runs a second time on the cloned canvas with the
\* same values, and the listeners of the clone.
HMPaint(clientWidth) ==
    /\ hm.pc \in {"registered", "painted", "hit"}
    /\ LET cw == ContainerWidth(clientWidth)
           date == hm.state.isDateAxis
           maxCols == maxColsOf(date, cw)
           visible == VisibleXLabels(hm.state.xLabels, maxCols)
       IN  hm' = [hm EXCEPT
                    !.pc = "painted",
                    !.paint = [containerWidth |-> cw,
                               canvasWidth |-> CanvasClientWidth(date, cw),
                               maxCols |-> maxCols,
                               visibleXLabels |-> visible,
                               cells |-> PaintedCells(hm.state, hm.input.options, visible),
                               canvas |-> AttachInteractive(CloneNode(
                                             InjectedCanvas(hm.paint.canvas))),
                               redraw |-> hm.pc # "registered"],
                    !.hit = NoHit]
    /\ UNCHANGED <<dvars, xvars, ts, tl, pct, sl, car>>

\* A later render pass of the dashboard: renderHeatmap runs again on the
\* same rows and stores the same state, the card in the document is a new
\* one whose container is empty until it is painted.
HMRerender ==
    /\ hm.pc \in {"painted", "hit"}
    /\ hm' = [hm EXCEPT !.pc = "registered", !.paint = NoPaint, !.hit = NoHit]
    /\ UNCHANGED <<dvars, xvars, ts, tl, pct, sl, car>>

\* Pixels of a mouse event over the canvas, relative to its left and top
\* edge: the first pixel of the first, second and last column and of the
\* right edge, and the pixel before each; the first and last pixel of the
\* first row, the first of the second row and the bottom edge.
MousePixelsX ==
    LET n == Len(hm.paint.visibleXLabels)
    IN  IF hm.pc \in {"painted", "hit"}
        THEN {getX(c, hm.paint.canvasWidth, n) + o : c \in {0, 1, n - 1, n}, o \in {-1, 0}}
                \cap (0..hm.paint.canvasWidth)
        ELSE {}

MousePixelsY ==
    {0, ROW_HEIGHT - 1, ROW_HEIGHT, Len(hm.state.yLabels) * ROW_HEIGHT}

\* handleMouseMove (lines 424-459) for an event inside the canvas's
\* bounding rectangle, mx = e.clientX - rect.left, my = e.clientY - rect.top
HMMouse(mx, my) ==
    /\ hm.pc \in {"painted", "hit"}
    /\ LET numCols == Len(hm.paint.visibleXLabels)
           colIdx == (mx * numCols) \div hm.paint.canvasWidth
           rowIdx == my \div ROW_HEIGHT
       IN  hm' = [hm EXCEPT
                    !.pc = "hit",
                    !.hit = [mx |-> mx, my |-> my,
                             shown |-> /\ colIdx >= 0 /\ colIdx < numCols
                                       /\ rowIdx >= 0 /\ rowIdx < Len(hm.state.yLabels),
                             colIdx |-> colIdx, rowIdx |-> rowIdx]]
    /\ UNCHANGED <<dvars, xvars, ts, tl, pct, sl, car>>

HMNext ==
    \/ HMRender
    \/ HMRerender
    \/ \E w \in ContainerWidths : HMPaint(w)
    \/ \E mx \in MousePixelsX, my \in MousePixelsY : HMMouse(mx, my)

SpecHM == HMInit /\ [][HMNext]_vars

\* year, month and day of a label that matches YYYY-M-D
DateOf(l) ==
    LET dash == CHOOSE i \in 6..Len(l) : l[i] = 45
        part(a, b) == NumberOf(SubSeq(l, a, b), b - a + 1)
    IN  <<part(1, 4), part(6, dash - 1), part(dash + 1, Len(l))>>

DateLess(a, b) ==
    LET da == DateOf(a)
        db == DateOf(b)
    IN  \/ da[1] < db[1]
        \/ da[1] = db[1] /\ da[2] < db[2]
        \/ da[1] = db[1] /\ da[2] = db[2] /\ da[3] < db[3]

\* s is strictly ascending: by date for "date", as LessBy orders otherwise
Ascending(s, order) ==
    \A i \in 1..Len(s) : \A j \in (i + 1)..Len(s) :
        IF order = "date" THEN DateLess(s[i], s[j]) ELSE LessBy(order, s[i], s[j])

\* C20: the x labels of a rendered heatmap are distinct and ascending:
\* numerically when every label is all digits, chronologically when every
\* label matches YYYY-M-D, lexicographically otherwise; the y labels are
\* ascending numerically when all are numeric, lexicographically otherwise.
C20_LabelOrder ==
    hm.pc # "input" =>
        LET xs == hm.state.xLabels
            ys == hm.state.yLabels
        IN  /\ \A i \in 1..Len(xs) : \A j \in 1..Len(xs) : xs[i] = xs[j] => i = j
            /\ IF \A i \in 1..Len(xs) : AllDigits(xs[i]) THEN Ascending(xs, "numeric")
               ELSE IF \A i \in 1..Len(xs) : MatchesDate(xs[i]) THEN Ascending(xs, "date")
               ELSE Ascending(xs, "lex")
            /\ IF hm.state.allNumeric THEN Ascending(ys, "numeric")
               ELSE Ascending(ys, "lex")


\* a is an older column than b: by number for all-digit labels, by date
\* for labels matching YYYY-M-D, by label otherwise
Older(xs, a, b) ==
    IF \A i \in 1..Len(xs) : AllDigits(xs[i]) THEN LessBy("numeric", a, b)
    ELSE IF \A i \in 1..Len(xs) : MatchesDate(xs[i]) THEN DateLess(a, b)
    ELSE LexLess(a, b)

Range(s) == {s[i] : i \in 1..Len(s)}

\* C13: a painted heatmap with more x labels than N = floor(availableWidth
\* / minColWidth) shows exactly N columns and every shown column is more
\* recent than every dropped one; otherwise it shows all columns; it never
\* shows zero columns when there are labels; 40 date columns in a container
\* that fits 10 show the 10 most recent.
C13_MostRecentColumns ==
    hm.pc \in {"painted", "hit"} =>
        LET xs == hm.state.xLabels
            vis == hm.paint.visibleXLabels
            N == hm.paint.maxCols
            dropped == Range(xs) \ Range(vis)
        IN  /\ N = availableWidthForGrid100(hm.state.isDateAxis, hm.paint.containerWidth)
                     \div MIN_BOX_WIDTH100(hm.state.isDateAxis)
            /\ Range(vis) \subseteq Range(xs)
            /\ Len(xs) > N =>
                  /\ Len(vis) = N
                  /\ \A d \in dropped : \A v \in Range(vis) : Older(xs, d, v)
            /\ Len(xs) <= N => vis = xs
            /\ Len(xs) > 0 => Len(vis) > 0
            /\ (Len(xs) = 40 /\ N = 10) => Len(vis) = 10


\* The cells of the last paint that were filled with the chart's colour.
\* The alpha of a cell is num / (100 * den) and its intensity v / den, den
\* the maximum value of the heatmap.
FilledCells == {cell \in hm.paint.cells : cell.filled}

C19_HitIsPaintedCell ==
    (/\ hm.pc = "hit"
     /\ hm.hit.mx < hm.paint.canvasWidth
     /\ hm.hit.my < Len(hm.state.yLabels) * ROW_HEIGHT)
    => LET n == Len(hm.paint.visibleXLabels)
           W == hm.paint.canvasWidth
       IN  /\ hm.hit.shown
           /\ getX(hm.hit.colIdx, W, n) <= hm.hit.mx
           /\ hm.hit.mx < getX(hm.hit.colIdx + 1, W, n)
           /\ hm.hit.rowIdx * ROW_HEIGHT <= hm.hit.my
           /\ hm.hit.my < (hm.hit.rowIdx + 1) * ROW_HEIGHT

---------------------------------------------------------------------------
(* Script loader: ensureScriptLoaded and waitForGlobal                     *)
(* (src/web/static/charts/table-renderer.js:245-314), for one URL and one  *)
(* global name. Time is counted in polling intervals of 50 ms.             *)

MaxCalls == 3

\* timeoutMs in polling intervals
TimeoutTicks == 1

\* the clock stops some intervals after a wait can have timed out
MaxTime == TimeoutTicks + 3

\* A promise handed to a caller. polling: a waitForGlobal timer chain is
\* running for it since start, its next tick is due at due.
NewPromise(state, polling, now) ==
    [state |-> state, polling |-> polling, start |-> now, due |-> now + 1]

SLStart(global) ==
    [pc |-> "on",
     global |-> global,        \* window[globalVarName] is set
     tags |-> 0,               \* script elements with this src in the document
     script |-> "none",        \* none, loading, loaded or failed
     pendingLoads |-> 0,       \* promise cached for the URL, 0 for none
     now |-> 0,
     promises |-> <<>>,
     calls |-> <<>>]           \* per call: promise returned, script state met, time

SLInit ==
    /\ sl \in {SLStart(g) : g \in BOOLEAN}
    /\ DashboardIdle
    /\ tl = TLIdle /\ pct = Off /\ hm = Off /\ car = Off
    /\ rz = Off /\ wc = Off /\ wf = Off /\ ts = Off

\* the call skips the checks for an existing tag and a pending load
MustInsertUnlessGlobal(s) == ~s.global

\* the call reaches document.head.appendChild (lines 248-259)
MustInsert(s) == ~s.global /\ s.tags = 0 /\ s.pendingLoads = 0

\* ensureScriptLoaded(src, globalVarName, timeoutMs)
SLCall ==
    /\ sl.pc = "on"
    /\ Len(sl.calls) < MaxCalls
    /\ LET id == Len(sl.promises) + 1
           met == sl.script
       IN  IF sl.global
           THEN sl' = [sl EXCEPT
                         !.promises = Append(@, NewPromise("resolved", FALSE, sl.now)),
                         !.calls = Append(@, [promise |-> id, met |-> met, at |-> sl.now])]
           ELSE IF MustInsert(sl)
           THEN sl' = [sl EXCEPT
                         !.tags = @ + 1,
                         !.script = "loading",
                         !.pendingLoads = id,
                         !.promises = Append(@, NewPromise("pending", FALSE, sl.now)),
                         !.calls = Append(@, [promise |-> id, met |-> met, at |-> sl.now])]
           ELSE IF sl.tags > 0
           THEN sl' = [sl EXCEPT
                         !.promises = Append(@, NewPromise("pending", TRUE, sl.now)),
                         !.calls = Append(@, [promise |-> id, met |-> met, at |-> sl.now])]
           ELSE sl' = [sl EXCEPT
                         !.calls = Append(@, [promise |-> sl.pendingLoads, met |-> met, at |-> sl.now])]
    /\ UNCHANGED <<dvars, xvars, ts, tl, pct, hm, car>>

\* script.onload (lines 266-272): the script has run, defining the global
\* or not; the promise of the inserting call resolves or starts to poll
SLOnLoad(defines) ==
    /\ sl.pc = "on"
    /\ sl.script = "loading"
    /\ LET g == sl.global \/ defines
           p == sl.pendingLoads
       IN  sl' = [sl EXCEPT
                    !.global = g,
                    !.script = "loaded",
                    !.promises[p] = IF g THEN [@ EXCEPT !.state = "resolved"]
                                    ELSE NewPromise("pending", TRUE, sl.now)]
    /\ UNCHANGED <<dvars, xvars, ts, tl, pct, hm, car>>

\* script.onerror (lines 274-276)
SLOnError ==
    /\ sl.pc = "on"
    /\ sl.script = "loading"
    /\ sl' = [sl EXCEPT !.script = "failed",
                        !.promises[sl.pendingLoads].state = "rejected"]
    /\ UNCHANGED <<dvars, xvars, ts, tl, pct, hm, car>>

\* tick of waitForGlobal (lines 298-310) for promise p, run by its timer
SLTick(p) ==
    /\ sl.pc = "on"
    /\ p \in 1..Len(sl.promises)
    /\ sl.promises[p].state = "pending"
    /\ sl.promises[p].polling
    /\ sl.now >= sl.promises[p].due
    /\ sl' = [sl EXCEPT
                !.promises[p] =
                    IF sl.global THEN [@ EXCEPT !.state = "resolved"]
                    ELSE IF sl.now - @.start > TimeoutTicks
                    THEN [@ EXCEPT !.state = "rejected"]
                    ELSE [@ EXCEPT !.due = sl.now + 1]]
    /\ UNCHANGED <<dvars, xvars, ts, tl, pct, hm, car>>

\* 50 ms pass
SLAdvance ==
    /\ sl.pc = "on"
    /\ sl.now < MaxTime
    /\ sl' = [sl EXCEPT !.now = @ + 1]
    /\ UNCHANGED <<dvars, xvars, ts, tl, pct, hm, car>>

SLNext ==
    \/ SLCall
    \/ \E defines \in BOOLEAN : SLOnLoad(defines)
    \/ SLOnError
    \/ \E p \in 1..MaxCalls : SLTick(p)
    \/ SLAdvance

SpecSL == SLInit /\ [][SLNext]_vars

\* C15: at most one script tag for the URL is in the document, whatever
\* calls were made and whether the load is pending, succeeded or failed.
C15_AtMostOneScriptTag == sl.pc = "on" => sl.tags <= 1

\* three calls were made, the last after the load failed, and one tag exists
C15_Witness ==
    /\ sl.pc = "on"
    /\ Len(sl.calls) = 3
    /\ sl.calls[2].met = "loading"
    /\ sl.calls[3].met = "failed"
    /\ sl.tags = 1


\* C17: a call made while the script of an earlier call is still loading
\* gets the promise of that call, so the two callers always see the same
\* settlement.
C17_SecondCallSharesPromise ==
    sl.pc = "on" =>
        \A k \in 1..Len(sl.calls) :
            sl.calls[k].met = "loading" =>
                /\ sl.calls[k].promise = sl.pendingLoads
                /\ sl.promises[sl.calls[k].promise].state
                      = sl.promises[sl.pendingLoads].state

\* C17, outcomes only: a call made while the script of an earlier call is
\* still loading never ends settled differently from that call.
SecondCallSameOutcome ==
    sl.pc = "on" =>
        \A k \in 1..Len(sl.calls) :
            sl.calls[k].met = "loading" =>
                LET a == sl.promises[sl.calls[k].promise].state
                    b == sl.promises[sl.pendingLoads].state
                IN  a = "pending" \/ b = "pending" \/ a = b


\* Timers and the clock run on their own; whether and when the network
\* delivers the script's load or error event is left open.
SLFairness ==
    /\ WF_vars(SLAdvance)
    /\ \A p \in 1..MaxCalls : WF_vars(SLTick(p))

SpecSLFair == SLInit /\ [][SLNext]_vars /\ SLFairness

\* C18: a promise returned by ensureScriptLoaded that is still pending
\* after more than timeoutMs since its call, the global not being
\* available, is eventually rejected.
C18_TimeoutRejects ==
    \A k \in 1..MaxCalls :
        [](/\ sl.pc = "on"
           /\ k <= Len(sl.calls)
           /\ sl.promises[sl.calls[k].promise].state = "pending"
           /\ sl.now - sl.calls[k].at > TimeoutTicks
           /\ ~sl.global
           => <>(/\ k <= Len(sl.calls)
                 /\ sl.promises[sl.calls[k].promise].state = "rejected"))

---------------------------------------------------------------------------
(* Quotes carousel: renderQuotesCarousel                                   *)
(* (src/web/static/charts/carousel-renderer.js:44-110) and Carousel        *)
(* (src/web/static/js/carousel.js:5-66). Two carousels are in the          *)
(* document; an id that matches no element is also passed.                 *)

MaxSlides == 3

CarouselIds == {"carousel-a", "carousel-b"}

\* class lists written by the template for slide idx and dot idx
SlideTemplate(idx) ==
    IF idx = 0 THEN {"opacity-100", "scale-100"}
    ELSE {"opacity-0", "scale-95", "pointer-events-none"}

DotTemplate(idx) ==
    IF idx = 0 THEN {"w-2.5", "bg-white", "w-8"}
    ELSE {"w-2.5", "bg-white/40"}

\* the element renderQuotesCarousel emits for chartData of length total;
\* data-current and data-total are attribute strings
CarouselElement(total) ==
    [current |-> Digits(0),
     total |-> Digits(total),
     slides |-> [i \in 0..(total - 1) |-> SlideTemplate(i)],
     dots |-> [i \in 0..(total - 1) |-> DotTemplate(i)]]

NoOp == [op |-> "none", id |-> "", index |-> 0]

CarInit ==
    /\ car \in [pc : {"on"},
                els : [CarouselIds -> {CarouselElement(t) : t \in 1..MaxSlides}],
                last : {NoOp}]
    /\ DashboardIdle
    /\ tl = TLIdle /\ pct = Off /\ hm = Off /\ sl = Off
    /\ rz = Off /\ wc = Off /\ wf = Off /\ ts = Off

\* parseInt(carousel.dataset.current), parseInt(carousel.dataset.total)
ParseInt(s) == NumberOf(s, Len(s))

\* next = current + 1, without wrapping
NextIndexUnwrapped(current, total) == current + 1

\* (current + 1) % total
NextIndex(current, total) == (current + 1) % total

\* (current - 1 + total) % total
PrevIndex(current, total) == (current - 1 + total) % total

\* Carousel.goToSlide on the element el (lines 42-64)
GoToSlideOn(el, index) ==
    [el EXCEPT
        !.slides = [i \in DOMAIN el.slides |->
                       IF i = index
                       THEN (el.slides[i] \ {"opacity-0", "scale-95", "pointer-events-none"})
                                \cup {"opacity-100", "scale-100"}
                       ELSE (el.slides[i] \cup {"opacity-0", "scale-95", "pointer-events-none"})
                                \ {"opacity-100", "scale-100"}],
        !.dots = [i \in DOMAIN el.dots |->
                     IF i = index
                     THEN (el.dots[i] \ {"bg-white/40", "w-2.5"}) \cup {"bg-white", "w-8"}
                     ELSE (el.dots[i] \cup {"bg-white/40", "w-2.5"}) \ {"bg-white", "w-8"}],
        !.current = Digits(index)]

\* Carousel.goToSlide(carouselId, index), as called by a dot's onclick
CarGoToSlide(id, index) ==
    /\ car.pc = "on"
    /\ car' = [car EXCEPT
                 !.els = IF id \in CarouselIds
                         THEN [@ EXCEPT ![id] = GoToSlideOn(@, index)]
                         ELSE @,
                 !.last = [op |-> "goToSlide", id |-> id, index |-> index]]
    /\ UNCHANGED <<dvars, xvars, ts, tl, pct, hm, sl>>

\* Carousel.next(carouselId)
CarNext(id) ==
    /\ car.pc = "on"
    /\ car' = [car EXCEPT
                 !.els = IF id \in CarouselIds
                         THEN [@ EXCEPT ![id] =
                                 GoToSlideOn(@, NextIndex(ParseInt(@.current),
                                                          ParseInt(@.total)))]
                         ELSE @,
                 !.last = [op |-> "next", id |-> id, index |-> 0]]
    /\ UNCHANGED <<dvars, xvars, ts, tl, pct, hm, sl>>

\* Carousel.prev(carouselId)
CarPrev(id) ==
    /\ car.pc = "on"
    /\ car' = [car EXCEPT
                 !.els = IF id \in CarouselIds
                         THEN [@ EXCEPT ![id] =
                                 GoToSlideOn(@, PrevIndex(ParseInt(@.current),
                                                          ParseInt(@.total)))]
                         ELSE @,
                 !.last = [op |-> "prev", id |-> id, index |-> 0]]
    /\ UNCHANGED <<dvars, xvars, ts, tl, pct, hm, sl>>

\* the dots of a carousel call goToSlide with their own index
DotIndexes(id) ==
    IF id \in CarouselIds THEN DOMAIN car.els[id].dots ELSE 0..(MaxSlides - 1)

CarNextStep ==
    \/ \E id \in CarouselIds \cup {"carousel-gone"} : CarNext(id)
    \/ \E id \in CarouselIds \cup {"carousel-gone"} : CarPrev(id)
    \/ \E id \in CarouselIds \cup {"carousel-gone"} :
          \E index \in DotIndexes(id) : CarGoToSlide(id, index)

SpecCar == CarInit /\ [][CarNextStep]_vars

\* slide i and dot i of element el are in the active visual state
SlideActive(el, i) ==
    /\ {"opacity-100", "scale-100"} \subseteq el.slides[i]
    /\ el.slides[i] \cap {"opacity-0", "scale-95", "pointer-events-none"} = {}

DotActive(el, i) ==
    /\ {"bg-white", "w-8"} \subseteq el.dots[i]
    /\ "bg-white/40" \notin el.dots[i]

\* The current index of every carousel is in [0, total), the slide and the
\* dot of that index are active and no other slide or dot is.
OneActiveSlideAndDot ==
    car.pc = "on" =>
        \A id \in CarouselIds :
            LET el == car.els[id]
                current == ParseInt(el.current)
                total == ParseInt(el.total)
            IN  /\ total >= 1
                /\ current \in 0..(total - 1)
                /\ \A i \in 0..(total - 1) :
                      /\ SlideActive(el, i) <=> i = current
                      /\ DotActive(el, i) <=> i = current

\* next moves the carousel it is called on to (current + 1) mod total, prev
\* to (current - 1 + total) mod total and goToSlide(i) to i; every other
\* carousel keeps its state.
ModularNavigation ==
    [][\A id \in CarouselIds :
          LET before == ParseInt(car.els[id].current)
              after == ParseInt(car'.els[id].current)
              total == ParseInt(car.els[id].total)
          IN  IF car'.last.id # id THEN car'.els[id] = car.els[id]
              ELSE /\ car'.last.op = "next" => after = (before + 1) % total
                   /\ car'.last.op = "prev" => after = (before - 1 + total) % total
                   /\ car'.last.op = "goToSlide" => after = car'.last.index
                   /\ car'.els[id].total = car.els[id].total]_vars

\* C16: after any sequence of next, prev and goToSlide(i) with
\* 0 <= i < total on carousels of at least one slide, the current index
\* is in [0, total), exactly the slide and the dot of the current index are
\* active, and every step sets the index as next, prev and goToSlide say.
C16_CarouselNavigation == []OneActiveSlideAndDot /\ ModularNavigation

\* next was called on a carousel of three slides showing the last slide
\* and wrapped to slide 0, after its dots had been used
C16_Witness ==
    /\ car.pc = "on"
    /\ car.last = [op |-> "next", id |-> "carousel-a", index |-> 0]
    /\ car.els["carousel-a"].total = Digits(3)
    /\ car.els["carousel-a"].current = Digits(0)
    /\ car.els["carousel-a"].dots[0] = {"bg-white", "w-8"}
    /\ DotActive(car.els["carousel-a"], 0)
    /\ car.els["carousel-b"].current = Digits(1)


RECURSIVE Pow(_, _)
Pow(b, e) == IF e = 0 THEN 1 ELSE b * Pow(b, e - 1)

\* C21: the intensity ratio / den that shades a filled cell of value v is
\* min(1, log(v + 1) / log(max + 1)), max the largest value of the heatmap;
\* with v <= max that is log(v + 1) / log(max + 1) = ratio / den, which is
\* (v + 1) ^ den = (max + 1) ^ ratio.
C21_LogIntensity ==
    hm.pc \in {"painted", "hit"} =>
        \A a \in FilledCells :
            /\ a.den = MaxV(hm.state.valueMap)
            /\ Pow(a.v + 1, a.den) = Pow(a.den + 1, a.ratio)


\* C22: the canvas of a painted heatmap carries exactly one mousemove and
\* one mouseleave listener, however many renders and redraws came before.
C22_OneListenerSet ==
    hm.pc \in {"painted", "hit"} =>
        /\ hm.paint.canvas.mousemove = 1
        /\ hm.paint.canvas.mouseleave = 1

\* the heatmap was redrawn over an earlier paint, and the mouse has moved
\* over the redrawn canvas
C22_Witness ==
    /\ hm.pc = "hit"
    /\ hm.paint.redraw
    /\ hm.paint.canvas.mousemove = 1
    /\ hm.paint.canvas.attached

---------------------------------------------------------------------------
(* Resize listener of the dashboard page                                   *)
(* (src/web/static/js/dashboard-renderer.js:39, 241-246) and               *)
(* initializeHeatmaps (src/web/static/charts/heatmap-renderer.js:475-479). *)
(* Time is counted in intervals of 50 ms; a timer callback runs when its   *)
(* delay has passed, or later.                                             *)

MaxResizes == 3

\* the delay of 100 ms passed to setTimeout, in intervals
DebounceTicks == 2

\* the clock stops once every resize can have been followed by its delay
MaxNow == MaxResizes * (DebounceTicks + 1) + DebounceTicks

RZInit ==
    /\ rz = [pc |-> "on",
             now |-> 0,
             timers |-> <<>>,        \* timer id -> due time, 0 once cleared or run
             resizeTimeout |-> 0,    \* the id kept in resizeTimeout, 0 for null
             lastResize |-> 0,       \* time of the last resize event
             runs |-> 0,             \* calls of initializeHeatmaps
             since |-> 0]            \* of these, after the last resize event
    /\ DashboardIdle
    /\ tl = TLIdle /\ pct = Off /\ hm = Off /\ sl = Off /\ car = Off
    /\ wc = Off /\ wf = Off /\ ts = Off

\* the timer is left to run
KeepTimeout(timers, id) == timers

\* clearTimeout(id): nothing for null or a timer that has run
ClearTimeout(timers, id) ==
    IF id \in DOMAIN timers THEN [timers EXCEPT ![id] = 0] ELSE timers

\* the resize listener (lines 241-246)
RZResize ==
    /\ rz.pc = "on"
    /\ Len(rz.timers) < MaxResizes
    /\ rz.now + DebounceTicks <= MaxNow
    /\ rz' = [rz EXCEPT
                !.timers = Append(ClearTimeout(rz.timers, rz.resizeTimeout),
                                  rz.now + DebounceTicks),
                !.resizeTimeout = Len(rz.timers) + 1,
                !.lastResize = rz.now,
                !.since = 0]
    /\ UNCHANGED <<dvars, fvars, wc, wf, ts>>

\* the callback of timer id: initializeHeatmaps()
RZTimer(id) ==
    /\ rz.pc = "on"
    /\ id \in DOMAIN rz.timers
    /\ rz.timers[id] # 0
    /\ rz.now >= rz.timers[id]
    /\ rz' = [rz EXCEPT !.timers[id] = 0,
                        !.runs = @ + 1,
                        !.since = @ + 1]
    /\ UNCHANGED <<dvars, fvars, wc, wf, ts>>

\* 50 ms pass
RZAdvance ==
    /\ rz.pc = "on"
    /\ rz.now < MaxNow
    /\ rz' = [rz EXCEPT !.now = @ + 1]
    /\ UNCHANGED <<dvars, fvars, wc, wf, ts>>

RZNext ==
    \/ RZResize
    \/ \E id \in 1..MaxResizes : RZTimer(id)
    \/ RZAdvance

\* Timers run when due and the clock advances; resize events are up to the
\* user.
SpecRZ ==
    /\ RZInit /\ [][RZNext]_vars
    /\ WF_vars(RZAdvance)
    /\ \A id \in 1..MaxResizes : WF_vars(RZTimer(id))

\* C23: initializeHeatmaps runs only when at least the debounce delay has
\* passed since the last resize event, so never between two events of a
\* burst; at most once after a resize event; and once resize events have
\* occurred and stop, it does run: exactly once after the last event.
C23_ResizeDebounced ==
    /\ [][rz'.runs > rz.runs =>
             /\ Len(rz.timers) > 0
             /\ rz.now - rz.lastResize >= DebounceTicks]_vars
    /\ [](rz.pc = "on" => rz.since <= 1)
    /\ <>[](rz.pc = "on" /\ (Len(rz.timers) > 0 => rz.since = 1))

\* a burst of three resize events, each less than the delay after the one
\* before, has been followed by its one recomputation
C23_Witness ==
    /\ rz.pc = "on"
    /\ Len(rz.timers) = 3
    /\ rz.lastResize = 2
    /\ rz.runs = 1
    /\ rz.since = 1

---------------------------------------------------------------------------
(* Word cloud: the font size of a word, weightFactor                       *)
(* (src/web/static/charts/wordcloud-renderer.js:135-161)                   *)

MaxWords == 3

\* weights of the words of a list
Weights == {-1, 0, 1, 2, 3}

\* rect.height of the canvas container
RectHeights == {500, 3000}

WordLists == UNION {[1..k -> Weights] : k \in 1..MaxWords}

SeqMax(ws) == CHOOSE m \in {ws[i] : i \in 1..Len(ws)} : \A i \in 1..Len(ws) : ws[i] <= m

\* maxWeight (line 136)
MaxWeight(ws) == IF Len(ws) > 0 THEN SeqMax(ws) ELSE 1

\* minWeight (line 137): the least positive weight; Math.min() of no
\* argument is Infinity
MinWeight(ws) ==
    LET pos == {ws[i] : i \in 1..Len(ws)} \cap {w \in Weights : w > 0}
    IN  IF Len(ws) = 0 THEN [inf |-> FALSE, v |-> 1]
        ELSE IF pos = {} THEN [inf |-> TRUE, v |-> 0]
        ELSE [inf |-> FALSE, v |-> CHOOSE m \in pos : \A w \in pos : m <= w]

\* Math.max(12, Math.floor(rect.height / 40)), Math.max(70, Math.floor(rect.height / 6))
MinSize(height) == Max(12, height \div 40)
MaxSize(height) == Max(70, height \div 6)

\* t of weightFactor (line 148) as the fraction num / den, den > 0
WeightT(w, ws) ==
    LET minWeight == MinWeight(ws)
        maxWeight == MaxWeight(ws)
    IN  IF ~minWeight.inf /\ maxWeight > minWeight.v
        THEN [num |-> w - minWeight.v, den |-> maxWeight - minWeight.v]
        ELSE [num |-> 0, den |-> 1]

\* weightFactor (lines 147-150): minSize + Math.pow(t, 0.8) * (maxSize -
\* minSize). Math.pow(t, 0.8) is NaN for t < 0, which makes the size NaN;
\* on t >= 0 it is strictly increasing with value 0 at 0 and 1 at 1, so
\* the size is kept as its t.
WeightFactor(w, ws, height) ==
    LET t == WeightT(w, ws)
    IN  [nan |-> t.num < 0, num |-> t.num, den |-> t.den,
         minSize |-> MinSize(height), maxSize |-> MaxSize(height)]

WFInit ==
    /\ wf \in [pc : {"list"}, list : WordLists, height : RectHeights, sizes : {<<>>}]
    /\ DashboardIdle
    /\ tl = TLIdle /\ pct = Off /\ hm = Off /\ sl = Off /\ car = Off
    /\ rz = Off /\ wc = Off /\ ts = Off

\* window.WordCloud calls weightFactor on the weight of every word
WFDraw ==
    /\ wf.pc = "list"
    /\ wf' = [wf EXCEPT !.pc = "drawn",
                        !.sizes = [i \in 1..Len(wf.list) |->
                                      WeightFactor(wf.list[i], wf.list, wf.height)]]
    /\ UNCHANGED <<dvars, fvars, rz, wc, ts>>

WFNext == WFDraw

SpecWF == WFInit /\ [][WFNext]_vars

\* C25: the font size of every word is a number between the minimum and
\* the maximum size of the container (its t is in [0, 1]), and a word of
\* no smaller weight gets no smaller size.
C25_FontSizeInRange ==
    wf.pc = "drawn" =>
        /\ \A i \in 1..Len(wf.sizes) :
              /\ ~wf.sizes[i].nan
              /\ 0 <= wf.sizes[i].num /\ wf.sizes[i].num <= wf.sizes[i].den
              /\ wf.sizes[i].minSize <= wf.sizes[i].maxSize
        /\ \A i \in 1..Len(wf.sizes) : \A j \in 1..Len(wf.sizes) :
              wf.list[i] <= wf.list[j] =>
                  /\ ~wf.sizes[i].nan /\ ~wf.sizes[j].nan
                  /\ wf.sizes[i].num <= wf.sizes[j].num

---------------------------------------------------------------------------
(* Word cloud widget: initializeWordCloud                                  *)
(* (src/web/static/charts/wordcloud-renderer.js:67-216) for one word_cloud *)
(* chart of a dashboard that is rendered repeatedly. Every render pass     *)
(* puts a new card (select, toggle, canvas) into the document and calls    *)
(* initializeWordCloud on it; the closures of earlier passes keep the      *)
(* elements of their own card, which are then outside the document.        *)

MaxWCPasses == 2

MaxWCResizes == 2

WCGroups == {"user", "assistant"}

\* payload.default_group_id (line 76)
DefaultGroup == "user"

WCInit ==
    /\ wc = [pc |-> "on",
             gen |-> 0,              \* render passes so far; the card in the document
             visible |-> FALSE,      \* the canvas container has a non-zero size
             selected |-> "",        \* select.value of the card in the document
             mode |-> "response",    \* currentMode of the latest closure
             toggleShown |-> FALSE,  \* the toggle of the card is not hidden
             drawn |-> "",           \* group drawn on the canvas of the card
             frames |-> {},          \* passes whose animation frame is pending
             retries |-> <<>>,       \* groups of the pending retry timers of the
                                     \* card, oldest first
             detached |-> {},        \* earlier passes with a retry timer running
             resizeListeners |-> {}, \* passes whose resize listener is on window
             resizeTimers |-> {},    \* passes whose resizeTimer is pending
             resizes |-> 0,          \* resize events so far
             resizeDraws |-> 0]      \* draws of the card since the last resize event
    /\ DashboardIdle
    /\ tl = TLIdle /\ pct = Off /\ hm = Off /\ sl = Off /\ car = Off
    /\ rz = Off /\ wf = Off /\ ts = Off

\* updateToggleVisibility(groupId) on the toggle of the document
ToggleShownFor(groupId) == groupId = "assistant"

\* draw(groupId) of the closure of pass g (lines 104-162). The elements of
\* an earlier pass are outside the document: its toggle is not the one
\* shown and the bounding rectangle of its container is empty, so that its
\* draw sets a retry timer whenever it runs.
Draw(w, g, groupId) ==
    IF g = w.gen
    THEN IF w.visible
         THEN [w EXCEPT !.toggleShown = ToggleShownFor(groupId), !.drawn = groupId]
         ELSE [w EXCEPT !.toggleShown = ToggleShownFor(groupId),
                        !.retries = Append(@, groupId)]
    ELSE [w EXCEPT !.detached = @ \cup {g}]

\* a render pass of the dashboard: renderWordCloudCard and
\* initializeWordCloud (lines 67-216) up to the registration of the handlers
WCRenderPass ==
    /\ wc.pc = "on"
    /\ wc.gen < MaxWCPasses
    /\ wc' = [wc EXCEPT !.gen = @ + 1,
                        !.selected = DefaultGroup,
                        !.mode = "response",
                        !.toggleShown = FALSE,
                        !.drawn = "",
                        !.retries = <<>>,
                        !.detached = IF wc.retries = <<>> THEN @ ELSE @ \cup {wc.gen},
                        !.frames = @ \cup {wc.gen + 1},
                        !.resizeListeners = @ \cup {wc.gen + 1}]
    /\ UNCHANGED <<dvars, fvars, rz, wf, ts>>

\* the second animation frame of pass g: draw(initial) (lines 163-169)
WCFrame(g) ==
    /\ wc.pc = "on"
    /\ g \in wc.frames
    /\ wc' = Draw([wc EXCEPT !.frames = @ \ {g}], g, DefaultGroup)
    /\ UNCHANGED <<dvars, fvars, rz, wf, ts>>

\* select.onchange (lines 172-187): the user picks a group in the card
WCSelect(groupId) ==
    /\ wc.pc = "on"
    /\ wc.gen > 0 /\ wc.visible
    /\ groupId # wc.selected
    /\ wc' = Draw([wc EXCEPT !.selected = groupId, !.mode = "response"],
                  wc.gen, groupId)
    /\ UNCHANGED <<dvars, fvars, rz, wf, ts>>

\* btn.onclick of a toggle button (lines 193-205)
WCToggleMode(mode) ==
    /\ wc.pc = "on"
    /\ wc.gen > 0 /\ wc.visible /\ wc.toggleShown
    /\ mode # wc.mode
    /\ wc' = Draw([wc EXCEPT !.mode = mode], wc.gen, wc.selected)
    /\ UNCHANGED <<dvars, fvars, rz, wf, ts>>

\* layout gives the container of the card a size, or takes it away
WCLayout ==
    /\ wc.pc = "on"
    /\ wc.gen > 0
    /\ wc' = [wc EXCEPT !.visible = ~@]
    /\ UNCHANGED <<dvars, fvars, rz, wf, ts>>

\* the oldest retry timer of the card runs (line 114): draw(groupId) with
\* the group of the call that set the timer
WCRetry ==
    /\ wc.pc = "on"
    /\ wc.retries # <<>>
    /\ wc' = Draw([wc EXCEPT !.retries = Tail(@)], wc.gen, Head(wc.retries))
    /\ UNCHANGED <<dvars, fvars, rz, wf, ts>>

\* the retry timer of an earlier pass runs and sets the next one
WCDetachedRetry(g) ==
    /\ wc.pc = "on"
    /\ g \in wc.detached
    /\ wc' = Draw(wc, g, DefaultGroup)
    /\ UNCHANGED <<dvars, fvars, rz, wf, ts>>

\* a resize event: every registered listener restarts its resizeTimer
\* (lines 209-215)
WCResize ==
    /\ wc.pc = "on"
    /\ wc.resizes < MaxWCResizes
    /\ wc.resizeListeners # {}
    /\ wc' = [wc EXCEPT !.resizeTimers = wc.resizeListeners,
                        !.resizes = @ + 1,
                        !.resizeDraws = 0]
    /\ UNCHANGED <<dvars, fvars, rz, wf, ts>>

\* the resizeTimer of pass g runs: draw(select.value)
WCResizeTimer(g) ==
    /\ wc.pc = "on"
    /\ g \in wc.resizeTimers
    /\ wc' = Draw([wc EXCEPT !.resizeTimers = @ \ {g},
                             !.resizeDraws = @ + 1],
                  g, IF g = wc.gen THEN wc.selected ELSE DefaultGroup)
    /\ UNCHANGED <<dvars, fvars, rz, wf, ts>>

WCNext ==
    \/ WCRenderPass
    \/ \E g \in 1..MaxWCPasses : WCFrame(g)
    \/ \E groupId \in WCGroups : WCSelect(groupId)
    \/ \E mode \in {"response", "thinking"} : WCToggleMode(mode)
    \/ WCLayout
    \/ WCRetry
    \/ \E g \in 1..MaxWCPasses : WCDetachedRetry(g)
    \/ WCResize
    \/ \E g \in 1..MaxWCPasses : WCResizeTimer(g)

SpecWC == WCInit /\ [][WCNext]_vars

\* C24: at most one resize listener of the word cloud is registered on
\* window, and a resize event leads to at most one draw call for it.
C24_OneResizeListener ==
    wc.pc = "on" =>
        /\ Cardinality(wc.resizeListeners) <= 1
        /\ wc.resizeDraws <= 1


\* a draw call of the card in the document is still to run
WCPending ==
    \/ wc.gen \in wc.frames
    \/ wc.gen \in wc.resizeTimers
    \/ wc.retries # <<>>

\* C30: once the pending draws of the card have run, the group drawn and
\* the visibility of the toggle are those of the selected group.
C30_DrawnIsSelected ==
    (wc.pc = "on" /\ wc.gen > 0 /\ ~WCPending) =>
        /\ wc.drawn = wc.selected
        /\ wc.toggleShown = ToggleShownFor(wc.selected)

---------------------------------------------------------------------------
(* Columnar tables: renderDataTable with chartConfig.columns               *)
(* (src/web/static/charts/table-renderer.js:80-117) applied to rows whose  *)
(* sort column holds numbers or strings, some of them null, and rendered   *)
(* again after each toggle of the direction.                               *)

MaxTableRows == 3

MaxTableRenders == 3

NumberCells == {NullCell, Num(2), Num(9), Num(10)}

StringCells == {NullCell, Str(<<"a">>), Str(<<"B">>), Str(<<"b", "a">>)}

\* the values of the sort column of up to MaxTableRows rows
CellLists(cells) ==
    UNION {[1..n -> cells] : n \in 1..MaxTableRows}

\* rows with a number under count, or a string under name; id is the
\* position of the row in the data
CountRows(cells) == [i \in 1..Len(cells) |-> [id |-> Num(i), count |-> cells[i]]]

NameRows(cells) == [i \in 1..Len(cells) |-> [id |-> Num(i), name |-> cells[i]]]

\* more rows than the default limit
LongRows == [i \in 1..(DefaultMaxItems + 2) |->
                [id |-> Num(i), count |-> Num((i * 7) % (DefaultMaxItems + 2))]]

TSRowLists ==
    {CountRows(cells) : cells \in CellLists(NumberCells)}
    \cup {NameRows(cells) : cells \in CellLists(StringCells)}
    \cup {LongRows}

\* the table configs: the sort key of the options or the first numeric
\* column, either direction, and a limit in the options, in the chart
\* config, or nowhere
TSConfigs ==
    {Table(ct, <<"name", "count">>, key, dir, maxItems) :
        key \in {"", "name"}, dir \in {"", "asc"}, maxItems \in {0, 2}}
    \cup {Table(ct, <<"name", "count">>, "", "", 2) @@ [max_items |-> 1]}

TSDashboard == <<"a">>

TSInit ==
    /\ ts = [pc |-> "idle", c |-> <<>>, rows |-> <<>>, state |-> <<>>,
             items |-> <<>>, renders |-> 0]
    /\ DashboardIdle
    /\ tl = TLIdle /\ pct = Off /\ hm = Off /\ sl = Off /\ car = Off
    /\ rz = Off /\ wc = Off /\ wf = Off

\* renderDataTable(chartConfig, chartData, dashboardId) for a table that
\* has no SortState yet
TSRender(c, rows) ==
    /\ ts.pc = "idle"
    /\ ts' = [pc |-> "rendered", c |-> c, rows |-> rows,
              state |-> TableSortStateAfter(c, TSDashboard, ts.state),
              items |-> TableItems(c, rows, TSDashboard, ts.state),
              renders |-> 1]
    /\ UNCHANGED <<dvars, fvars, rz, wc, wf>>

\* a click on the sort toggle: toggleTableSort, then the dashboard is
\* rendered again with the same data
TSToggle ==
    /\ ts.pc = "rendered"
    /\ ts.renders < MaxTableRenders
    /\ LET state == toggleTableSort(ts.state, TableId(TSDashboard, ts.c.id))
       IN  ts' = [ts EXCEPT !.state = state,
                            !.items = TableItems(ts.c, ts.rows, TSDashboard, state),
                            !.renders = @ + 1]
    /\ UNCHANGED <<dvars, fvars, rz, wc, wf>>

TSNext ==
    \/ \E c \in TSConfigs, rows \in TSRowLists : TSRender(c, rows)
    \/ TSToggle

SpecTS == TSInit /\ [][TSNext]_vars

\* the SortState of the rendered table
TSSortState == ts.state[TableId(TSDashboard, ts.c.id)]

\* value a is strictly before value b in the order the table is to show:
\* a defined value before a null one; numbers by their difference; strings
\* by their lower-case forms
ShownBefore(a, b, dir) ==
    IF a.t = "null" THEN FALSE
    ELSE IF b.t = "null" THEN TRUE
    ELSE IF a.t = "number" /\ b.t = "number"
    THEN IF dir = "desc" THEN a.v > b.v ELSE a.v < b.v
    ELSE LET cmp == localeCompare(toLowerCase(String(a)), toLowerCase(String(b)))
         IN  IF dir = "desc" THEN cmp > 0 ELSE cmp < 0

\* the sort values of the rows that have one, numbers as they are and
\* strings in lower case
DefinedKeys(rows, key) ==
    LET RECURSIVE Keys(_)
        Keys(n) ==
            IF n = 0 THEN <<>>
            ELSE LET v == Field(rows[n], key)
                 IN  IF v.t = "null" THEN Keys(n - 1)
                     ELSE IF v.t = "number" THEN Append(Keys(n - 1), v.v)
                     ELSE Append(Keys(n - 1), toLowerCase(v.v))
    IN  Keys(Len(rows))

Reverse(s) == [i \in 1..Len(s) |-> s[Len(s) + 1 - i]]

\* C26: a rendered columnar table shows the first max_items rows (15 by
\* default) of its data sorted by the key and direction of its SortState:
\* every row shown is a row of the data, no row is shown twice, the rows
\* shown are in order, and no row left out belongs before a row shown;
\* rows without a value come after the rows with one in both directions;
\* and the values in ascending order are those in descending order
\* reversed.
C26_SortedThenTruncated ==
    ts.pc = "rendered" =>
        LET key == TSSortState.key
            dir == TSSortState.direction
            n == Len(ts.rows)
            limit == TableMaxItems(ts.c)
            shown == {ts.items[i].id : i \in 1..Len(ts.items)}
        IN  /\ Len(ts.items) = IF n < limit THEN n ELSE limit
            /\ \A i \in 1..Len(ts.items) :
                  \E j \in 1..n : ts.items[i] = ts.rows[j]
            /\ Cardinality(shown) = Len(ts.items)
            /\ key = "" => ts.items = SubSeq(ts.rows, 1, Len(ts.items))
            /\ key # "" =>
                  /\ \A i, j \in 1..Len(ts.items) :
                        i < j => ~ShownBefore(Field(ts.items[j], key),
                                              Field(ts.items[i], key), dir)
                  /\ \A j \in 1..n :
                        ts.rows[j].id \notin shown
                        => \A i \in 1..Len(ts.items) :
                              ~ShownBefore(Field(ts.rows[j], key),
                                           Field(ts.items[i], key), dir)
                  /\ DefinedKeys(sortData(ts.rows, key, "asc"), key)
                        = Reverse(DefinedKeys(sortData(ts.rows, key, "desc"), key))

\* a table of three rows limited to two, sorted by name after a toggle:
\* the row without a name and the row "a" of the data are behind "ba" and
\* "B", and the row without a name is the one left out
C26_Witness ==
    /\ ts.pc = "rendered"
    /\ ts.renders = 2
    /\ TSSortState = [key |-> "name", direction |-> "desc"]
    /\ ts.rows = NameRows(<<NullCell, Str(<<"a">>), Str(<<"b", "a">>)>>)
    /\ ts.items = <<ts.rows[3], ts.rows[2]>>

---------------------------------------------------------------------------
(* Claims on the rows createTimelineChart keeps and adds up (SpecTL)       *)

\* the x value of the row is present, not blank, and names a date
Parseable(row) == row.date.form \in {"date", "T", "space"}

ParseableRows(rows) == SelectSeq(rows, Parseable)

\* C27: a row whose x value is missing, blank or no date is dropped on its
\* own: the chart is the one the remaining rows alone give, with as many
\* bucketed rows as there are rows with a parseable x value; and no chart
\* is made exactly when no row has one.
C27_BadRowsDropped ==
    tl.pc = "done" =>
        LET good == ParseableRows(tl.rows)
        IN  /\ tl.chart.made <=> Len(good) > 0
            /\ tl.chart = createTimelineChart(good, tl.tz)
            /\ tl.chart.made
               => SumSeq(tl.chart.counts, Len(tl.chart.counts)) = Len(good)

\* a row without a date and a row with one: the chart has the one row
C27_Witness ==
    /\ tl.pc = "done"
    /\ Len(tl.rows) = 2
    /\ ~Parseable(tl.rows[1])
    /\ Parseable(tl.rows[2])
    /\ tl.chart.made
    /\ tl.chart.counts = <<1>>

\* the number a field of a row stands for: its value when that is a
\* number or the string of one, 0 when it is missing or anything else
FieldNumber(row, f) ==
    LET cell == Field(row, f)
    IN  IF cell.t \in {"number", "numtext"} THEN cell.v ELSE 0

RECURSIVE SumField(_, _, _)
SumField(rows, f, n) ==
    IF n = 0 THEN 0 ELSE FieldNumber(rows[n], f) + SumField(rows, f, n - 1)

---------------------------------------------------------------------------
(* Claims on the handles of other dashboards (Spec)                        *)

\* the dashboard whose render created the instance registered under key
DashboardOfKey(key) ==
    CHOOSE d \in Dashboards : \E id \in {cx, cy, ct, ch, cq} : key = ChartKey(d, id)

\* C29: a Chart instance stops being live or registered only in a step in
\* which a pass of the dashboard that created it runs initializeCharts;
\* the passes of any other dashboard leave it live and registered, also
\* when the id of that other dashboard is a prefix of its dashboard's id.
C29_OtherDashboardsKept ==
    [][\A h \in live :
          (\/ h \notin live'
           \/ h.key \notin DOMAIN dashboardCharts'
           \/ dashboardCharts'[h.key] # h)
          => \E p \in Passes :
                /\ InitStepWithLib(p)
                /\ passes[p].dash = DashboardOfKey(h.key)]_vars

====
